---- MODULE Spec2Model ----
(***************************************************************************)
(* Model of the PDF page counter's batch task queue (App component):       *)
(* the task registry (tasks), the run flag (isProcessing), the textarea    *)
(* (urlInput), the pending FileReader loads of handleExcelUpload, and the  *)
(* async runTasks loop with its three suspension points (fetch,            *)
(* response.blob, getPageCount).                                           *)
(*                                                                         *)
(* JavaScript runs each handler and each continuation of an await to       *)
(* completion, so one action is one handler or one continuation, with all  *)
(* the state updates it queues applied in order.                           *)
(*                                                                         *)
(* Strings that the code inspects (URLs, textarea contents) are sequences  *)
(* of one-character strings; error messages are TLA+ strings.              *)
(***************************************************************************)
EXTENDS Integers, Sequences, FiniteSets, TLC

VARIABLES
    tasks,          \* useState<PdfTask[]>: the registry
    isProcessing,   \* useState(false)
    urlInput,       \* useState(''): the textarea content
    readers,        \* FileReader loads started by handleExcelUpload, onload pending
    pc,             \* position of runTasks: "idle", "fetch", "blob", "inspect"
    tasksToProcess, \* runTasks' frozen copy [...tasks]
    i,              \* runTasks' loop index (1-based)
    nextId,         \* number of ids uuidv4 has handed out
    fetched,        \* ids the run in progress has called fetch for, in call order
    inspected,      \* ids the run in progress has called getPageCount for
    exportData      \* the workbook the step just taken wrote (exportToExcel), if any

vars == <<tasks, isProcessing, urlInput, readers, pc, tasksToProcess, i,
          nextId, fetched, inspected, exportData>>

-----------------------------------------------------------------------------
(* Bounds of the model *)

MaxIds == 3        \* ids uuidv4 hands out in one behaviour
MaxReaders == 1    \* FileReader loads pending at once

-----------------------------------------------------------------------------
(* TaskStatus *)

IDLE == "IDLE"
DOWNLOADING == "DOWNLOADING"
ANALYZING == "ANALYZING"
COMPLETED == "COMPLETED"
FAILED == "FAILED"
TaskStatus == {IDLE, DOWNLOADING, ANALYZING, COMPLETED, FAILED}

\* An optional field (pageCount?, error?) is <<>> when undefined, <<v>> when set.
Undefined == <<>>
Some(v) == <<v>>
IsSet(o) == o # Undefined

-----------------------------------------------------------------------------
(* Strings as sequences of characters *)

\* A character is a one-character string: a printable ASCII character is
\* written as itself, tab, line feed, form feed and carriage return as "\t",
\* "\n", "\f" and "\r", and any other UTF-16 code unit as "U+" followed by its
\* number in decimal ("U+160" is the no-break space).

\* WhiteSpace and LineTerminator of ECMAScript, which String.prototype.trim
\* strips: tab, LF, VT, FF, CR, space, U+00A0, U+1680, U+2000..U+200A, U+2028,
\* U+2029, U+202F, U+205F, U+3000, U+FEFF.
WhiteSpace ==
    {" ", "\t", "\n", "\r", "\f", "U+11", "U+160", "U+5760",
     "U+8192", "U+8193", "U+8194", "U+8195", "U+8196", "U+8197", "U+8198",
     "U+8199", "U+8200", "U+8201", "U+8202",
     "U+8232", "U+8233", "U+8239", "U+8287", "U+12288", "U+65279"}

RECURSIVE trimStart(_)
trimStart(s) ==
    IF s # <<>> /\ Head(s) \in WhiteSpace THEN trimStart(Tail(s)) ELSE s

RECURSIVE trimEnd(_)
trimEnd(s) ==
    IF s # <<>> /\ s[Len(s)] \in WhiteSpace
    THEN trimEnd(SubSeq(s, 1, Len(s) - 1)) ELSE s

\* String.prototype.trim
trim(s) == trimEnd(trimStart(s))

\* String.prototype.startsWith
startsWith(s, p) == Len(s) >= Len(p) /\ SubSeq(s, 1, Len(p)) = p

\* Position of the first occurrence of character c in s, 0 when absent.
RECURSIVE indexOf(_, _, _)
indexOf(s, c, from) ==
    IF from > Len(s) THEN 0
    ELSE IF s[from] = c THEN from ELSE indexOf(s, c, from + 1)

\* Position of the last occurrence of character c in s, 0 when absent
\* (String.prototype.lastIndexOf, 1-based).
RECURSIVE lastIndexOf(_, _, _)
lastIndexOf(s, c, from) ==
    IF from < 1 THEN 0
    ELSE IF s[from] = c THEN from ELSE lastIndexOf(s, c, from - 1)

\* String.prototype.split on a one-character separator.
RECURSIVE split(_, _)
split(s, c) ==
    LET k == indexOf(s, c, 1) IN
    IF k = 0 THEN <<s>>
    ELSE <<SubSeq(s, 1, k - 1)>> \o split(SubSeq(s, k + 1, Len(s)), c)

RECURSIVE join(_, _)
join(parts, c) ==
    IF parts = <<>> THEN <<>>
    ELSE IF Len(parts) = 1 THEN parts[1]
    ELSE parts[1] \o <<c>> \o join(Tail(parts), c)

HTTP_PREFIX == <<"h", "t", "t", "p", ":", "/", "/">>
HTTPS_PREFIX == <<"h", "t", "t", "p", "s", ":", "/", "/">>

-----------------------------------------------------------------------------
(* getFileNameFromUrl: the URL constructor (WHATWG URL parsing of an        *)
(* absolute URL with an authority), pathname, substring/lastIndexOf/split, *)
(* and decodeURIComponent.                                                 *)

\* The printable ASCII characters, code 32 (space) to 126 (~), in code order
\* (the grave accent, code 96, is written by its number).
Printable ==
  <<
    " ", "!", "\"", "#", "$", "%", "&", "'", "(", ")", "*", "+",
    ",", "-", ".", "/", "0", "1", "2", "3", "4", "5", "6", "7",
    "8", "9", ":", ";", "<", "=", ">", "?", "@", "A", "B", "C",
    "D", "E", "F", "G", "H", "I", "J", "K", "L", "M", "N", "O",
    "P", "Q", "R", "S", "T", "U", "V", "W", "X", "Y", "Z", "[",
    "\\", "]", "^", "_", "U+96", "a", "b", "c", "d", "e", "f", "g",
    "h", "i", "j", "k", "l", "m", "n", "o", "p", "q", "r", "s",
    "t", "u", "v", "w", "x", "y", "z", "{", "|", "}", "~"
  >>

\* The character with code unit cp.
Chr(cp) ==
    IF cp >= 32 /\ cp <= 126 THEN Printable[cp - 31]
    ELSE IF cp = 9 THEN "\t"
    ELSE IF cp = 10 THEN "\n"
    ELSE IF cp = 12 THEN "\f"
    ELSE IF cp = 13 THEN "\r"
    ELSE "U+" \o ToString(cp)

\* The code units of the code point cp: a surrogate pair above U+FFFF.
CodeUnits(cp) ==
    IF cp < 65536 THEN <<Chr(cp)>>
    ELSE <<Chr(55296 + ((cp - 65536) \div 1024)), Chr(56320 + ((cp - 65536) % 1024))>>

HexDigits == <<"0", "1", "2", "3", "4", "5", "6", "7", "8", "9",
               "a", "b", "c", "d", "e", "f">>
HexDigitsUpper == <<"0", "1", "2", "3", "4", "5", "6", "7", "8", "9",
                    "A", "B", "C", "D", "E", "F">>

\* Value of a hexadecimal digit, -1 when c is none.
HexTable ==
    [c \in {HexDigits[k] : k \in 1..16} \cup {HexDigitsUpper[k] : k \in 1..16} |->
        CHOOSE n \in 0..15 : HexDigits[n + 1] = c \/ HexDigitsUpper[n + 1] = c]
HexVal(c) == IF c \in DOMAIN HexTable THEN HexTable[c] ELSE -1

\* The byte written %XY at position k of s (s[k] = "%"), -1 when malformed.
ByteAt(s, k) ==
    IF k + 2 > Len(s) \/ s[k] # "%" THEN -1
    ELSE IF HexVal(s[k + 1]) < 0 \/ HexVal(s[k + 2]) < 0 THEN -1
    ELSE 16 * HexVal(s[k + 1]) + HexVal(s[k + 2])

\* Number of continuation bytes a UTF-8 lead byte announces, -1 when b is no
\* lead byte.
Continuations(b) ==
    IF b < 128 THEN 0
    ELSE IF b >= 194 /\ b <= 223 THEN 1
    ELSE IF b >= 224 /\ b <= 239 THEN 2
    ELSE IF b >= 240 /\ b <= 244 THEN 3
    ELSE -1

\* decodeURIComponent: [ok |-> FALSE] is the URIError it throws on a malformed
\* escape or an escape sequence that is not valid UTF-8.
RECURSIVE decodeURIComponent(_)
decodeURIComponent(s) ==
    IF s = <<>> THEN [ok |-> TRUE, value |-> <<>>]
    ELSE IF Head(s) # "%" THEN
        LET rest == decodeURIComponent(Tail(s)) IN
        IF rest.ok THEN [ok |-> TRUE, value |-> <<Head(s)>> \o rest.value]
        ELSE rest
    ELSE
        LET b == ByteAt(s, 1)
            n == IF b < 0 THEN -1 ELSE Continuations(b)
        IN
        IF n < 0 THEN [ok |-> FALSE, value |-> <<>>]
        ELSE
            LET bytes == [j \in 1..n |-> ByteAt(s, 1 + 3 * j)]
                lo(j) == IF j = 1 /\ b = 224 THEN 160
                         ELSE IF j = 1 /\ b = 240 THEN 144 ELSE 128
                hi(j) == IF j = 1 /\ b = 237 THEN 159
                         ELSE IF j = 1 /\ b = 244 THEN 143 ELSE 191
                valid == \A j \in 1..n : bytes[j] >= lo(j) /\ bytes[j] <= hi(j)
                lead == IF n = 0 THEN b
                        ELSE IF n = 1 THEN b - 192
                        ELSE IF n = 2 THEN b - 224 ELSE b - 240
                cp == IF n = 0 THEN lead
                      ELSE IF n = 1 THEN lead * 64 + (bytes[1] - 128)
                      ELSE IF n = 2 THEN
                          (lead * 64 + (bytes[1] - 128)) * 64 + (bytes[2] - 128)
                      ELSE ((lead * 64 + (bytes[1] - 128)) * 64
                             + (bytes[2] - 128)) * 64 + (bytes[3] - 128)
                rest == decodeURIComponent(SubSeq(s, 4 + 3 * n, Len(s)))
            IN
            IF ~valid THEN [ok |-> FALSE, value |-> <<>>]
            ELSE IF rest.ok THEN [ok |-> TRUE, value |-> CodeUnits(cp) \o rest.value]
            ELSE rest

\* Code of a printable ASCII character.
OrdTable ==
    [c \in {Printable[k] : k \in 1..95} |-> CHOOSE n \in 32..126 : Printable[n - 31] = c]

\* The characters by the high byte of their code unit.
CodeUnitBlocks == [h \in 0..255 |-> {Chr(256 * h + l) : l \in 0..255}]

\* Code unit of a character (0 for a string that is no character).
Ord(c) ==
    IF c \in DOMAIN OrdTable THEN OrdTable[c]
    ELSE LET hs == {h \in 0..255 : c \in CodeUnitBlocks[h]} IN
         IF hs = {} THEN 0
         ELSE LET h == CHOOSE x \in hs : TRUE IN
              256 * h + (CHOOSE l \in 0..255 : Chr(256 * h + l) = c)

UpperCaseLetters == {Printable[k] : k \in 34..59}
LowerCaseLetters == {Printable[k] : k \in 66..91}
DecimalDigits == {Printable[k] : k \in 17..26}
IsAlpha(c) == c \in UpperCaseLetters \/ c \in LowerCaseLetters
IsDigit(c) == c \in DecimalDigits
Lower(c) == IF c \in UpperCaseLetters THEN Chr(Ord(c) + 32) ELSE c
toLowerCase(s) == [k \in 1..Len(s) |-> Lower(s[k])]

\* The URL parser strips leading and trailing C0 control or space (U+0000 to
\* U+0020), then drops ASCII tab and newline wherever they stand.
C0ControlOrSpace == {Chr(n) : n \in 0..32}

RECURSIVE stripLeading(_, _)
stripLeading(s, set) ==
    IF s # <<>> /\ Head(s) \in set THEN stripLeading(Tail(s), set) ELSE s

RECURSIVE stripTrailing(_, _)
stripTrailing(s, set) ==
    IF s # <<>> /\ s[Len(s)] \in set
    THEN stripTrailing(SubSeq(s, 1, Len(s) - 1), set) ELSE s

removeTabNewline(s) == SelectSeq(s, LAMBDA c : c \notin {"\t", "\n", "\r"})

\* The special schemes whose URLs always carry a host (file, the sixth special
\* scheme, may have an empty host and is handled apart).
SpecialSchemes ==
    { <<"h", "t", "t", "p">>, <<"h", "t", "t", "p", "s">>, <<"f", "t", "p">>,
      <<"w", "s">>, <<"w", "s", "s">> }

ValidScheme(s) ==
    /\ s # <<>>
    /\ IsAlpha(s[1])
    /\ \A k \in 1..Len(s) : IsAlpha(s[k]) \/ IsDigit(s[k]) \/ s[k] \in {"+", "-", "."}

\* Index of the first character of s at or after from that is in set, Len(s)+1
\* when there is none.
RECURSIVE firstOf(_, _, _)
firstOf(s, set, from) ==
    IF from > Len(s) THEN Len(s) + 1
    ELSE IF s[from] \in set THEN from ELSE firstOf(s, set, from + 1)

\* Index of the first character of s at or after from that is not in set.
RECURSIVE firstNotOf(_, _, _)
firstNotOf(s, set, from) ==
    IF from > Len(s) THEN Len(s) + 1
    ELSE IF s[from] \notin set THEN from ELSE firstNotOf(s, set, from + 1)

\* Forbidden host code points: an opaque host (of a scheme that is not
\* special) may contain none of them.
ForbiddenOpaqueHost ==
    {Chr(0), "\t", "\n", "\r", " ", "#", "/", ":", "<", ">", "?", "@", "[", "\\", "]", "^", "|"}

\* Forbidden domain code points: the forbidden host code points, the C0
\* controls, "%" and U+007F; the host of a special scheme may contain none of
\* them after its percent-decoding.
ForbiddenHost == ForbiddenOpaqueHost \cup {Chr(n) : n \in 0..31} \cup {"%", Chr(127)}

\* The number written by digits in radix R as <<high, low>>, its value being
\* high * 65536 + low; high stops at 65536 (the value is 2^32 or more).
RECURSIVE NumberLimbs(_, _, _, _)
NumberLimbs(digits, R, high, low) ==
    IF digits = <<>> THEN <<high, low>>
    ELSE LET v == low * R + HexVal(Head(digits))
             h == high * R + (v \div 65536)
         IN NumberLimbs(Tail(digits), R, IF h > 65536 THEN 65536 ELSE h, v % 65536)

IsNumber(s) == s # <<>> /\ \A k \in 1..Len(s) : IsDigit(s[k])

\* The port state: ASCII digits, however many, of a value up to 65535; no
\* digit at all leaves the port unset.
ValidPort(port) ==
    /\ \A k \in 1..Len(port) : IsDigit(port[k])
    /\ NumberLimbs(port, 10, 0, 0)[1] = 0

\* The IPv4 number parser on one part: 0x or 0X announces hexadecimal, a
\* leading 0 octal; [ok |-> FALSE] is its failure.
IPv4Number(part) ==
    LET hex == Len(part) >= 2 /\ part[1] = "0" /\ part[2] \in {"x", "X"}
        octal == ~hex /\ Len(part) >= 2 /\ part[1] = "0"
        R == IF hex THEN 16 ELSE IF octal THEN 8 ELSE 10
        digits == IF hex THEN SubSeq(part, 3, Len(part))
                  ELSE IF octal THEN Tail(part) ELSE part
    IN IF part # <<>> /\ \A k \in 1..Len(digits) :
                             HexVal(digits[k]) >= 0 /\ HexVal(digits[k]) < R
       THEN [ok |-> TRUE, limbs |-> NumberLimbs(digits, R, 0, 0)]
       ELSE [ok |-> FALSE, limbs |-> <<0, 0>>]

\* The parts of a domain between its dots, without the empty part a trailing
\* dot leaves.
DomainParts(parts) ==
    IF Len(parts) > 1 /\ parts[Len(parts)] = <<>> THEN SubSeq(parts, 1, Len(parts) - 1)
    ELSE parts

\* The ends-in-a-number checker.
EndsInNumber(domain) ==
    LET parts == DomainParts(split(domain, ".")) IN
    IsNumber(parts[Len(parts)]) \/ IPv4Number(parts[Len(parts)]).ok

\* The IPv4 parser: at most four numbers, each but the last up to 255, the
\* last below 256^(5 - their count).
ValidIPv4(domain) ==
    LET parts == DomainParts(split(domain, ".")) IN
    /\ Len(parts) <= 4
    /\ \A k \in 1..Len(parts) : IPv4Number(parts[k]).ok
    /\ \A k \in 1..(Len(parts) - 1) :
           IPv4Number(parts[k]).limbs[1] = 0 /\ IPv4Number(parts[k]).limbs[2] <= 255
    /\ IPv4Number(parts[Len(parts)]).limbs[1]
           < (CASE Len(parts) = 1 -> 65536 [] Len(parts) = 2 -> 256 [] OTHER -> 1)
    /\ Len(parts) = 4 => IPv4Number(parts[4]).limbs[2] <= 255

\* Number of hexadecimal digits of s from position k on, four at most.
RECURSIVE HexRun(_, _, _)
HexRun(s, k, n) ==
    IF n < 4 /\ k <= Len(s) /\ HexVal(s[k]) >= 0 THEN HexRun(s, k + 1, n + 1) ELSE n

\* The dotted decimal end of an IPv6 address: four numbers up to 255, none
\* with a leading zero.
ValidIPv4InIPv6(s) ==
    LET parts == split(s, ".") IN
    /\ Len(parts) = 4
    /\ \A k \in 1..4 :
           /\ IsNumber(parts[k])
           /\ Len(parts[k]) <= 3
           /\ Len(parts[k]) > 1 => parts[k][1] # "0"
           /\ NumberLimbs(parts[k], 10, 0, 0)[2] <= 255

\* The IPv6 parser from position k on, at the start of a piece, with pieces
\* already read and a "::" seen or not.
RECURSIVE ValidIPv6From(_, _, _, _)
ValidIPv6From(s, k, pieces, compressed) ==
    IF k > Len(s) THEN compressed \/ pieces = 8
    ELSE IF pieces = 8 THEN FALSE
    ELSE IF s[k] = ":" THEN ~compressed /\ ValidIPv6From(s, k + 1, pieces + 1, TRUE)
    ELSE IF HexRun(s, k, 0) = 0 THEN FALSE
    ELSE IF k + HexRun(s, k, 0) > Len(s) THEN compressed \/ pieces + 1 = 8
    ELSE IF s[k + HexRun(s, k, 0)] = "."
    THEN /\ pieces <= 6
         /\ ValidIPv4InIPv6(SubSeq(s, k, Len(s)))
         /\ compressed \/ pieces + 2 = 8
    ELSE IF s[k + HexRun(s, k, 0)] = ":"
    THEN /\ k + HexRun(s, k, 0) + 1 <= Len(s)
         /\ ValidIPv6From(s, k + HexRun(s, k, 0) + 1, pieces + 1, compressed)
    ELSE FALSE

ValidIPv6(s) ==
    IF s # <<>> /\ s[1] = ":"
    THEN Len(s) >= 2 /\ s[2] = ":" /\ ValidIPv6From(s, 3, 1, TRUE)
    ELSE ValidIPv6From(s, 1, 0, FALSE)

\* "[" ... "]" around an IPv6 address.
ValidIPv6Literal(host) ==
    /\ Len(host) >= 2
    /\ host[Len(host)] = "]"
    /\ ValidIPv6(SubSeq(host, 2, Len(host) - 1))

\* UTF-8 bytes of a code point.
Utf8(cp) ==
    IF cp < 128 THEN <<cp>>
    ELSE IF cp < 2048 THEN <<192 + (cp \div 64), 128 + (cp % 64)>>
    ELSE IF cp < 65536
    THEN <<224 + (cp \div 4096), 128 + ((cp \div 64) % 64), 128 + (cp % 64)>>
    ELSE <<240 + (cp \div 262144), 128 + ((cp \div 4096) % 64),
           128 + ((cp \div 64) % 64), 128 + (cp % 64)>>

\* The code point at the head of s (a surrogate pair is one code point, a lone
\* surrogate is U+FFFD) and the number of code units it takes.
CodePointAt(s) ==
    LET high(n) == n >= 55296 /\ n <= 56319
        low(n) == n >= 56320 /\ n <= 57343
    IN IF high(Ord(s[1])) /\ Len(s) >= 2 /\ low(Ord(s[2]))
       THEN <<65536 + (Ord(s[1]) - 55296) * 1024 + (Ord(s[2]) - 56320), 2>>
       ELSE IF high(Ord(s[1])) \/ low(Ord(s[1])) THEN <<65533, 1>>
       ELSE <<Ord(s[1]), 1>>

\* Percent-decoding of a host into bytes: an escape that is not %XX stays as
\* it is written.
RECURSIVE HostBytes(_)
HostBytes(s) ==
    IF s = <<>> THEN <<>>
    ELSE IF ByteAt(s, 1) >= 0 THEN <<ByteAt(s, 1)>> \o HostBytes(SubSeq(s, 4, Len(s)))
    ELSE Utf8(CodePointAt(s)[1]) \o HostBytes(SubSeq(s, CodePointAt(s)[2] + 1, Len(s)))

\* UTF-8 decode of the percent-decoded host. The number of bytes the
\* well-formed sequence at the head of bytes takes, 0 when it is ill-formed.
Utf8Length(bytes) ==
    LET IsContinuation(b) == b >= 128 /\ b <= 191 IN
    IF bytes[1] < 128 THEN 1
    ELSE IF bytes[1] >= 194 /\ bytes[1] <= 223
    THEN IF Len(bytes) >= 2 /\ IsContinuation(bytes[2]) THEN 2 ELSE 0
    ELSE IF bytes[1] >= 224 /\ bytes[1] <= 239
    THEN IF /\ Len(bytes) >= 3
            /\ bytes[2] >= (IF bytes[1] = 224 THEN 160 ELSE 128)
            /\ bytes[2] <= (IF bytes[1] = 237 THEN 159 ELSE 191)
            /\ IsContinuation(bytes[3])
         THEN 3 ELSE 0
    ELSE IF bytes[1] >= 240 /\ bytes[1] <= 244
    THEN IF /\ Len(bytes) >= 4
            /\ bytes[2] >= (IF bytes[1] = 240 THEN 144 ELSE 128)
            /\ bytes[2] <= (IF bytes[1] = 244 THEN 143 ELSE 191)
            /\ IsContinuation(bytes[3])
            /\ IsContinuation(bytes[4])
         THEN 4 ELSE 0
    ELSE 0

\* The code points of bytes; ill-formed bytes make the host invalid (they
\* decode to U+FFFD, which no domain may contain).
RECURSIVE Utf8Decode(_, _)
Utf8Decode(bytes, acc) ==
    LET n == Utf8Length(bytes)
        cp == CASE n = 1 -> bytes[1]
                [] n = 2 -> (bytes[1] - 192) * 64 + (bytes[2] - 128)
                [] n = 3 -> (bytes[1] - 224) * 4096 + (bytes[2] - 128) * 64
                                + (bytes[3] - 128)
                [] n = 4 -> (bytes[1] - 240) * 262144 + (bytes[2] - 128) * 4096
                                + (bytes[3] - 128) * 64 + (bytes[4] - 128)
    IN IF bytes = <<>> THEN [ok |-> TRUE, value |-> acc]
       ELSE IF n = 0 THEN [ok |-> FALSE, value |-> <<>>]
       ELSE Utf8Decode(SubSeq(bytes, n + 1, Len(bytes)), Append(acc, cp))

\* The IDNA mapping table (UTS #46 of Unicode 15.0, UseSTD3ASCIIRules off,
\* non-transitional) as rows <<first code point, status, mapping>>; a row
\* holds up to the code point before the next row. Status 0 is valid (the
\* deviations with it), 1 disallowed, 2 ignored, 3 mapped.
IdnaTable ==
    <<
       <<0, 0, <<>>>>, <<65, 3, <<97>>>>, <<66, 3, <<98>>>>, <<67, 3, <<99>>>>, <<68, 3, <<100>>>>,
       <<69, 3, <<101>>>>, <<70, 3, <<102>>>>, <<71, 3, <<103>>>>, <<72, 3, <<104>>>>,
       <<73, 3, <<105>>>>, <<74, 3, <<106>>>>, <<75, 3, <<107>>>>, <<76, 3, <<108>>>>,
       <<77, 3, <<109>>>>, <<78, 3, <<110>>>>, <<79, 3, <<111>>>>, <<80, 3, <<112>>>>,
       <<81, 3, <<113>>>>, <<82, 3, <<114>>>>, <<83, 3, <<115>>>>, <<84, 3, <<116>>>>,
       <<85, 3, <<117>>>>, <<86, 3, <<118>>>>, <<87, 3, <<119>>>>, <<88, 3, <<120>>>>,
       <<89, 3, <<121>>>>, <<90, 3, <<122>>>>, <<91, 0, <<>>>>, <<128, 1, <<>>>>,
       <<160, 3, <<32>>>>, <<161, 0, <<>>>>, <<168, 3, <<32, 776>>>>, <<169, 0, <<>>>>,
       <<170, 3, <<97>>>>, <<171, 0, <<>>>>, <<173, 2, <<>>>>, <<174, 0, <<>>>>,
       <<175, 3, <<32, 772>>>>, <<176, 0, <<>>>>, <<178, 3, <<50>>>>, <<179, 3, <<51>>>>,
       <<180, 3, <<32, 769>>>>, <<181, 3, <<956>>>>, <<182, 0, <<>>>>, <<184, 3, <<32, 807>>>>,
       <<185, 3, <<49>>>>, <<186, 3, <<111>>>>, <<187, 0, <<>>>>, <<188, 3, <<49, 8260, 52>>>>,
       <<189, 3, <<49, 8260, 50>>>>, <<190, 3, <<51, 8260, 52>>>>, <<191, 0, <<>>>>,
       <<192, 3, <<224>>>>, <<193, 3, <<225>>>>, <<194, 3, <<226>>>>, <<195, 3, <<227>>>>,
       <<196, 3, <<228>>>>, <<197, 3, <<229>>>>, <<198, 3, <<230>>>>, <<199, 3, <<231>>>>,
       <<200, 3, <<232>>>>, <<201, 3, <<233>>>>, <<202, 3, <<234>>>>, <<203, 3, <<235>>>>,
       <<204, 3, <<236>>>>, <<205, 3, <<237>>>>, <<206, 3, <<238>>>>, <<207, 3, <<239>>>>,
       <<208, 3, <<240>>>>, <<209, 3, <<241>>>>, <<210, 3, <<242>>>>, <<211, 3, <<243>>>>,
       <<212, 3, <<244>>>>, <<213, 3, <<245>>>>, <<214, 3, <<246>>>>, <<215, 0, <<>>>>,
       <<216, 3, <<248>>>>, <<217, 3, <<249>>>>, <<218, 3, <<250>>>>, <<219, 3, <<251>>>>,
       <<220, 3, <<252>>>>, <<221, 3, <<253>>>>, <<222, 3, <<254>>>>, <<223, 0, <<>>>>,
       <<256, 3, <<257>>>>, <<257, 0, <<>>>>, <<258, 3, <<259>>>>, <<259, 0, <<>>>>,
       <<260, 3, <<261>>>>, <<261, 0, <<>>>>, <<262, 3, <<263>>>>, <<263, 0, <<>>>>,
       <<264, 3, <<265>>>>, <<265, 0, <<>>>>, <<266, 3, <<267>>>>, <<267, 0, <<>>>>,
       <<268, 3, <<269>>>>, <<269, 0, <<>>>>, <<270, 3, <<271>>>>, <<271, 0, <<>>>>,
       <<272, 3, <<273>>>>, <<273, 0, <<>>>>, <<274, 3, <<275>>>>, <<275, 0, <<>>>>,
       <<276, 3, <<277>>>>, <<277, 0, <<>>>>, <<278, 3, <<279>>>>, <<279, 0, <<>>>>,
       <<280, 3, <<281>>>>, <<281, 0, <<>>>>, <<282, 3, <<283>>>>, <<283, 0, <<>>>>,
       <<284, 3, <<285>>>>, <<285, 0, <<>>>>, <<286, 3, <<287>>>>, <<287, 0, <<>>>>,
       <<288, 3, <<289>>>>, <<289, 0, <<>>>>, <<290, 3, <<291>>>>, <<291, 0, <<>>>>,
       <<292, 3, <<293>>>>, <<293, 0, <<>>>>, <<294, 3, <<295>>>>, <<295, 0, <<>>>>,
       <<296, 3, <<297>>>>, <<297, 0, <<>>>>, <<298, 3, <<299>>>>, <<299, 0, <<>>>>,
       <<300, 3, <<301>>>>, <<301, 0, <<>>>>, <<302, 3, <<303>>>>, <<303, 0, <<>>>>,
       <<304, 3, <<105, 775>>>>, <<305, 0, <<>>>>, <<306, 3, <<105, 106>>>>, <<308, 3, <<309>>>>,
       <<309, 0, <<>>>>, <<310, 3, <<311>>>>, <<311, 0, <<>>>>, <<313, 3, <<314>>>>,
       <<314, 0, <<>>>>, <<315, 3, <<316>>>>, <<316, 0, <<>>>>, <<317, 3, <<318>>>>,
       <<318, 0, <<>>>>, <<319, 3, <<108, 183>>>>, <<321, 3, <<322>>>>, <<322, 0, <<>>>>,
       <<323, 3, <<324>>>>, <<324, 0, <<>>>>, <<325, 3, <<326>>>>, <<326, 0, <<>>>>,
       <<327, 3, <<328>>>>, <<328, 0, <<>>>>, <<329, 3, <<700, 110>>>>, <<330, 3, <<331>>>>,
       <<331, 0, <<>>>>, <<332, 3, <<333>>>>, <<333, 0, <<>>>>, <<334, 3, <<335>>>>,
       <<335, 0, <<>>>>, <<336, 3, <<337>>>>, <<337, 0, <<>>>>, <<338, 3, <<339>>>>,
       <<339, 0, <<>>>>, <<340, 3, <<341>>>>, <<341, 0, <<>>>>, <<342, 3, <<343>>>>,
       <<343, 0, <<>>>>, <<344, 3, <<345>>>>, <<345, 0, <<>>>>, <<346, 3, <<347>>>>,
       <<347, 0, <<>>>>, <<348, 3, <<349>>>>, <<349, 0, <<>>>>, <<350, 3, <<351>>>>,
       <<351, 0, <<>>>>, <<352, 3, <<353>>>>, <<353, 0, <<>>>>, <<354, 3, <<355>>>>,
       <<355, 0, <<>>>>, <<356, 3, <<357>>>>, <<357, 0, <<>>>>, <<358, 3, <<359>>>>,
       <<359, 0, <<>>>>, <<360, 3, <<361>>>>, <<361, 0, <<>>>>, <<362, 3, <<363>>>>,
       <<363, 0, <<>>>>, <<364, 3, <<365>>>>, <<365, 0, <<>>>>, <<366, 3, <<367>>>>,
       <<367, 0, <<>>>>, <<368, 3, <<369>>>>, <<369, 0, <<>>>>, <<370, 3, <<371>>>>,
       <<371, 0, <<>>>>, <<372, 3, <<373>>>>, <<373, 0, <<>>>>, <<374, 3, <<375>>>>,
       <<375, 0, <<>>>>, <<376, 3, <<255>>>>, <<377, 3, <<378>>>>, <<378, 0, <<>>>>,
       <<379, 3, <<380>>>>, <<380, 0, <<>>>>, <<381, 3, <<382>>>>, <<382, 0, <<>>>>,
       <<383, 3, <<115>>>>, <<384, 0, <<>>>>, <<385, 3, <<595>>>>, <<386, 3, <<387>>>>,
       <<387, 0, <<>>>>, <<388, 3, <<389>>>>, <<389, 0, <<>>>>, <<390, 3, <<596>>>>,
       <<391, 3, <<392>>>>, <<392, 0, <<>>>>, <<393, 3, <<598>>>>, <<394, 3, <<599>>>>,
       <<395, 3, <<396>>>>, <<396, 0, <<>>>>, <<398, 3, <<477>>>>, <<399, 3, <<601>>>>,
       <<400, 3, <<603>>>>, <<401, 3, <<402>>>>, <<402, 0, <<>>>>, <<403, 3, <<608>>>>,
       <<404, 3, <<611>>>>, <<405, 0, <<>>>>, <<406, 3, <<617>>>>, <<407, 3, <<616>>>>,
       <<408, 3, <<409>>>>, <<409, 0, <<>>>>, <<412, 3, <<623>>>>, <<413, 3, <<626>>>>,
       <<414, 0, <<>>>>, <<415, 3, <<629>>>>, <<416, 3, <<417>>>>, <<417, 0, <<>>>>,
       <<418, 3, <<419>>>>, <<419, 0, <<>>>>, <<420, 3, <<421>>>>, <<421, 0, <<>>>>,
       <<422, 3, <<640>>>>, <<423, 3, <<424>>>>, <<424, 0, <<>>>>, <<425, 3, <<643>>>>,
       <<426, 0, <<>>>>, <<428, 3, <<429>>>>, <<429, 0, <<>>>>, <<430, 3, <<648>>>>,
       <<431, 3, <<432>>>>, <<432, 0, <<>>>>, <<433, 3, <<650>>>>, <<434, 3, <<651>>>>,
       <<435, 3, <<436>>>>, <<436, 0, <<>>>>, <<437, 3, <<438>>>>, <<438, 0, <<>>>>,
       <<439, 3, <<658>>>>, <<440, 3, <<441>>>>, <<441, 0, <<>>>>, <<444, 3, <<445>>>>,
       <<445, 0, <<>>>>, <<452, 3, <<100, 382>>>>, <<455, 3, <<108, 106>>>>,
       <<458, 3, <<110, 106>>>>, <<461, 3, <<462>>>>, <<462, 0, <<>>>>, <<463, 3, <<464>>>>,
       <<464, 0, <<>>>>, <<465, 3, <<466>>>>, <<466, 0, <<>>>>, <<467, 3, <<468>>>>,
       <<468, 0, <<>>>>, <<469, 3, <<470>>>>, <<470, 0, <<>>>>, <<471, 3, <<472>>>>,
       <<472, 0, <<>>>>, <<473, 3, <<474>>>>, <<474, 0, <<>>>>, <<475, 3, <<476>>>>,
       <<476, 0, <<>>>>, <<478, 3, <<479>>>>, <<479, 0, <<>>>>, <<480, 3, <<481>>>>,
       <<481, 0, <<>>>>, <<482, 3, <<483>>>>, <<483, 0, <<>>>>, <<484, 3, <<485>>>>,
       <<485, 0, <<>>>>, <<486, 3, <<487>>>>, <<487, 0, <<>>>>, <<488, 3, <<489>>>>,
       <<489, 0, <<>>>>, <<490, 3, <<491>>>>, <<491, 0, <<>>>>, <<492, 3, <<493>>>>,
       <<493, 0, <<>>>>, <<494, 3, <<495>>>>, <<495, 0, <<>>>>, <<497, 3, <<100, 122>>>>,
       <<500, 3, <<501>>>>, <<501, 0, <<>>>>, <<502, 3, <<405>>>>, <<503, 3, <<447>>>>,
       <<504, 3, <<505>>>>, <<505, 0, <<>>>>, <<506, 3, <<507>>>>, <<507, 0, <<>>>>,
       <<508, 3, <<509>>>>, <<509, 0, <<>>>>, <<510, 3, <<511>>>>, <<511, 0, <<>>>>,
       <<512, 3, <<513>>>>, <<513, 0, <<>>>>, <<514, 3, <<515>>>>, <<515, 0, <<>>>>,
       <<516, 3, <<517>>>>, <<517, 0, <<>>>>, <<518, 3, <<519>>>>, <<519, 0, <<>>>>,
       <<520, 3, <<521>>>>, <<521, 0, <<>>>>, <<522, 3, <<523>>>>, <<523, 0, <<>>>>,
       <<524, 3, <<525>>>>, <<525, 0, <<>>>>, <<526, 3, <<527>>>>, <<527, 0, <<>>>>,
       <<528, 3, <<529>>>>, <<529, 0, <<>>>>, <<530, 3, <<531>>>>, <<531, 0, <<>>>>,
       <<532, 3, <<533>>>>, <<533, 0, <<>>>>, <<534, 3, <<535>>>>, <<535, 0, <<>>>>,
       <<536, 3, <<537>>>>, <<537, 0, <<>>>>, <<538, 3, <<539>>>>, <<539, 0, <<>>>>,
       <<540, 3, <<541>>>>, <<541, 0, <<>>>>, <<542, 3, <<543>>>>, <<543, 0, <<>>>>,
       <<544, 3, <<414>>>>, <<545, 0, <<>>>>, <<546, 3, <<547>>>>, <<547, 0, <<>>>>,
       <<548, 3, <<549>>>>, <<549, 0, <<>>>>, <<550, 3, <<551>>>>, <<551, 0, <<>>>>,
       <<552, 3, <<553>>>>, <<553, 0, <<>>>>, <<554, 3, <<555>>>>, <<555, 0, <<>>>>,
       <<556, 3, <<557>>>>, <<557, 0, <<>>>>, <<558, 3, <<559>>>>, <<559, 0, <<>>>>,
       <<560, 3, <<561>>>>, <<561, 0, <<>>>>, <<562, 3, <<563>>>>, <<563, 0, <<>>>>,
       <<570, 3, <<11365>>>>, <<571, 3, <<572>>>>, <<572, 0, <<>>>>, <<573, 3, <<410>>>>,
       <<574, 3, <<11366>>>>, <<575, 0, <<>>>>, <<577, 3, <<578>>>>, <<578, 0, <<>>>>,
       <<579, 3, <<384>>>>, <<580, 3, <<649>>>>, <<581, 3, <<652>>>>, <<582, 3, <<583>>>>,
       <<583, 0, <<>>>>, <<584, 3, <<585>>>>, <<585, 0, <<>>>>, <<586, 3, <<587>>>>,
       <<587, 0, <<>>>>, <<588, 3, <<589>>>>, <<589, 0, <<>>>>, <<590, 3, <<591>>>>,
       <<591, 0, <<>>>>, <<688, 3, <<104>>>>, <<689, 3, <<614>>>>, <<690, 3, <<106>>>>,
       <<691, 3, <<114>>>>, <<692, 3, <<633>>>>, <<693, 3, <<635>>>>, <<694, 3, <<641>>>>,
       <<695, 3, <<119>>>>, <<696, 3, <<121>>>>, <<697, 0, <<>>>>, <<728, 3, <<32, 774>>>>,
       <<729, 3, <<32, 775>>>>, <<730, 3, <<32, 778>>>>, <<731, 3, <<32, 808>>>>,
       <<732, 3, <<32, 771>>>>, <<733, 3, <<32, 779>>>>, <<734, 0, <<>>>>, <<736, 3, <<611>>>>,
       <<737, 3, <<108>>>>, <<738, 3, <<115>>>>, <<739, 3, <<120>>>>, <<740, 3, <<661>>>>,
       <<741, 0, <<>>>>, <<832, 3, <<768>>>>, <<833, 3, <<769>>>>, <<834, 0, <<>>>>,
       <<835, 3, <<787>>>>, <<836, 3, <<776, 769>>>>, <<837, 3, <<953>>>>, <<838, 0, <<>>>>,
       <<847, 2, <<>>>>, <<848, 0, <<>>>>, <<880, 3, <<881>>>>, <<881, 0, <<>>>>,
       <<882, 3, <<883>>>>, <<883, 0, <<>>>>, <<884, 3, <<697>>>>, <<885, 0, <<>>>>,
       <<886, 3, <<887>>>>, <<887, 0, <<>>>>, <<888, 1, <<>>>>, <<890, 3, <<32, 953>>>>,
       <<891, 0, <<>>>>, <<894, 3, <<59>>>>, <<895, 3, <<1011>>>>, <<896, 1, <<>>>>,
       <<900, 3, <<32, 769>>>>, <<901, 3, <<32, 776, 769>>>>, <<902, 3, <<940>>>>,
       <<903, 3, <<183>>>>, <<904, 3, <<941>>>>, <<905, 3, <<942>>>>, <<906, 3, <<943>>>>,
       <<907, 1, <<>>>>, <<908, 3, <<972>>>>, <<909, 1, <<>>>>, <<910, 3, <<973>>>>,
       <<911, 3, <<974>>>>, <<912, 0, <<>>>>, <<913, 3, <<945>>>>, <<914, 3, <<946>>>>,
       <<915, 3, <<947>>>>, <<916, 3, <<948>>>>, <<917, 3, <<949>>>>, <<918, 3, <<950>>>>,
       <<919, 3, <<951>>>>, <<920, 3, <<952>>>>, <<921, 3, <<953>>>>, <<922, 3, <<954>>>>,
       <<923, 3, <<955>>>>, <<924, 3, <<956>>>>, <<925, 3, <<957>>>>, <<926, 3, <<958>>>>,
       <<927, 3, <<959>>>>, <<928, 3, <<960>>>>, <<929, 3, <<961>>>>, <<930, 1, <<>>>>,
       <<931, 3, <<963>>>>, <<932, 3, <<964>>>>, <<933, 3, <<965>>>>, <<934, 3, <<966>>>>,
       <<935, 3, <<967>>>>, <<936, 3, <<968>>>>, <<937, 3, <<969>>>>, <<938, 3, <<970>>>>,
       <<939, 3, <<971>>>>, <<940, 0, <<>>>>, <<975, 3, <<983>>>>, <<976, 3, <<946>>>>,
       <<977, 3, <<952>>>>, <<978, 3, <<965>>>>, <<979, 3, <<973>>>>, <<980, 3, <<971>>>>,
       <<981, 3, <<966>>>>, <<982, 3, <<960>>>>, <<983, 0, <<>>>>, <<984, 3, <<985>>>>,
       <<985, 0, <<>>>>, <<986, 3, <<987>>>>, <<987, 0, <<>>>>, <<988, 3, <<989>>>>,
       <<989, 0, <<>>>>, <<990, 3, <<991>>>>, <<991, 0, <<>>>>, <<992, 3, <<993>>>>,
       <<993, 0, <<>>>>, <<994, 3, <<995>>>>, <<995, 0, <<>>>>, <<996, 3, <<997>>>>,
       <<997, 0, <<>>>>, <<998, 3, <<999>>>>, <<999, 0, <<>>>>, <<1000, 3, <<1001>>>>,
       <<1001, 0, <<>>>>, <<1002, 3, <<1003>>>>, <<1003, 0, <<>>>>, <<1004, 3, <<1005>>>>,
       <<1005, 0, <<>>>>, <<1006, 3, <<1007>>>>, <<1007, 0, <<>>>>, <<1008, 3, <<954>>>>,
       <<1009, 3, <<961>>>>, <<1010, 3, <<963>>>>, <<1011, 0, <<>>>>, <<1012, 3, <<952>>>>,
       <<1013, 3, <<949>>>>, <<1014, 0, <<>>>>, <<1015, 3, <<1016>>>>, <<1016, 0, <<>>>>,
       <<1017, 3, <<963>>>>, <<1018, 3, <<1019>>>>, <<1019, 0, <<>>>>, <<1021, 3, <<891>>>>,
       <<1022, 3, <<892>>>>, <<1023, 3, <<893>>>>, <<1024, 3, <<1104>>>>, <<1025, 3, <<1105>>>>,
       <<1026, 3, <<1106>>>>, <<1027, 3, <<1107>>>>, <<1028, 3, <<1108>>>>, <<1029, 3, <<1109>>>>,
       <<1030, 3, <<1110>>>>, <<1031, 3, <<1111>>>>, <<1032, 3, <<1112>>>>, <<1033, 3, <<1113>>>>,
       <<1034, 3, <<1114>>>>, <<1035, 3, <<1115>>>>, <<1036, 3, <<1116>>>>, <<1037, 3, <<1117>>>>,
       <<1038, 3, <<1118>>>>, <<1039, 3, <<1119>>>>, <<1040, 3, <<1072>>>>, <<1041, 3, <<1073>>>>,
       <<1042, 3, <<1074>>>>, <<1043, 3, <<1075>>>>, <<1044, 3, <<1076>>>>, <<1045, 3, <<1077>>>>,
       <<1046, 3, <<1078>>>>, <<1047, 3, <<1079>>>>, <<1048, 3, <<1080>>>>, <<1049, 3, <<1081>>>>,
       <<1050, 3, <<1082>>>>, <<1051, 3, <<1083>>>>, <<1052, 3, <<1084>>>>, <<1053, 3, <<1085>>>>,
       <<1054, 3, <<1086>>>>, <<1055, 3, <<1087>>>>, <<1056, 3, <<1088>>>>, <<1057, 3, <<1089>>>>,
       <<1058, 3, <<1090>>>>, <<1059, 3, <<1091>>>>, <<1060, 3, <<1092>>>>, <<1061, 3, <<1093>>>>,
       <<1062, 3, <<1094>>>>, <<1063, 3, <<1095>>>>, <<1064, 3, <<1096>>>>, <<1065, 3, <<1097>>>>,
       <<1066, 3, <<1098>>>>, <<1067, 3, <<1099>>>>, <<1068, 3, <<1100>>>>, <<1069, 3, <<1101>>>>,
       <<1070, 3, <<1102>>>>, <<1071, 3, <<1103>>>>, <<1072, 0, <<>>>>, <<1120, 3, <<1121>>>>,
       <<1121, 0, <<>>>>, <<1122, 3, <<1123>>>>, <<1123, 0, <<>>>>, <<1124, 3, <<1125>>>>,
       <<1125, 0, <<>>>>, <<1126, 3, <<1127>>>>, <<1127, 0, <<>>>>, <<1128, 3, <<1129>>>>,
       <<1129, 0, <<>>>>, <<1130, 3, <<1131>>>>, <<1131, 0, <<>>>>, <<1132, 3, <<1133>>>>,
       <<1133, 0, <<>>>>, <<1134, 3, <<1135>>>>, <<1135, 0, <<>>>>, <<1136, 3, <<1137>>>>,
       <<1137, 0, <<>>>>, <<1138, 3, <<1139>>>>, <<1139, 0, <<>>>>, <<1140, 3, <<1141>>>>,
       <<1141, 0, <<>>>>, <<1142, 3, <<1143>>>>, <<1143, 0, <<>>>>, <<1144, 3, <<1145>>>>,
       <<1145, 0, <<>>>>, <<1146, 3, <<1147>>>>, <<1147, 0, <<>>>>, <<1148, 3, <<1149>>>>,
       <<1149, 0, <<>>>>, <<1150, 3, <<1151>>>>, <<1151, 0, <<>>>>, <<1152, 3, <<1153>>>>,
       <<1153, 0, <<>>>>, <<1162, 3, <<1163>>>>, <<1163, 0, <<>>>>, <<1164, 3, <<1165>>>>,
       <<1165, 0, <<>>>>, <<1166, 3, <<1167>>>>, <<1167, 0, <<>>>>, <<1168, 3, <<1169>>>>,
       <<1169, 0, <<>>>>, <<1170, 3, <<1171>>>>, <<1171, 0, <<>>>>, <<1172, 3, <<1173>>>>,
       <<1173, 0, <<>>>>, <<1174, 3, <<1175>>>>, <<1175, 0, <<>>>>, <<1176, 3, <<1177>>>>,
       <<1177, 0, <<>>>>, <<1178, 3, <<1179>>>>, <<1179, 0, <<>>>>, <<1180, 3, <<1181>>>>,
       <<1181, 0, <<>>>>, <<1182, 3, <<1183>>>>, <<1183, 0, <<>>>>, <<1184, 3, <<1185>>>>,
       <<1185, 0, <<>>>>, <<1186, 3, <<1187>>>>, <<1187, 0, <<>>>>, <<1188, 3, <<1189>>>>,
       <<1189, 0, <<>>>>, <<1190, 3, <<1191>>>>, <<1191, 0, <<>>>>, <<1192, 3, <<1193>>>>,
       <<1193, 0, <<>>>>, <<1194, 3, <<1195>>>>, <<1195, 0, <<>>>>, <<1196, 3, <<1197>>>>,
       <<1197, 0, <<>>>>, <<1198, 3, <<1199>>>>, <<1199, 0, <<>>>>, <<1200, 3, <<1201>>>>,
       <<1201, 0, <<>>>>, <<1202, 3, <<1203>>>>, <<1203, 0, <<>>>>, <<1204, 3, <<1205>>>>,
       <<1205, 0, <<>>>>, <<1206, 3, <<1207>>>>, <<1207, 0, <<>>>>, <<1208, 3, <<1209>>>>,
       <<1209, 0, <<>>>>, <<1210, 3, <<1211>>>>, <<1211, 0, <<>>>>, <<1212, 3, <<1213>>>>,
       <<1213, 0, <<>>>>, <<1214, 3, <<1215>>>>, <<1215, 0, <<>>>>, <<1216, 1, <<>>>>,
       <<1217, 3, <<1218>>>>, <<1218, 0, <<>>>>, <<1219, 3, <<1220>>>>, <<1220, 0, <<>>>>,
       <<1221, 3, <<1222>>>>, <<1222, 0, <<>>>>, <<1223, 3, <<1224>>>>, <<1224, 0, <<>>>>,
       <<1225, 3, <<1226>>>>, <<1226, 0, <<>>>>, <<1227, 3, <<1228>>>>, <<1228, 0, <<>>>>,
       <<1229, 3, <<1230>>>>, <<1230, 0, <<>>>>, <<1232, 3, <<1233>>>>, <<1233, 0, <<>>>>,
       <<1234, 3, <<1235>>>>, <<1235, 0, <<>>>>, <<1236, 3, <<1237>>>>, <<1237, 0, <<>>>>,
       <<1238, 3, <<1239>>>>, <<1239, 0, <<>>>>, <<1240, 3, <<1241>>>>, <<1241, 0, <<>>>>,
       <<1242, 3, <<1243>>>>, <<1243, 0, <<>>>>, <<1244, 3, <<1245>>>>, <<1245, 0, <<>>>>,
       <<1246, 3, <<1247>>>>, <<1247, 0, <<>>>>, <<1248, 3, <<1249>>>>, <<1249, 0, <<>>>>,
       <<1250, 3, <<1251>>>>, <<1251, 0, <<>>>>, <<1252, 3, <<1253>>>>, <<1253, 0, <<>>>>,
       <<1254, 3, <<1255>>>>, <<1255, 0, <<>>>>, <<1256, 3, <<1257>>>>, <<1257, 0, <<>>>>,
       <<1258, 3, <<1259>>>>, <<1259, 0, <<>>>>, <<1260, 3, <<1261>>>>, <<1261, 0, <<>>>>,
       <<1262, 3, <<1263>>>>, <<1263, 0, <<>>>>, <<1264, 3, <<1265>>>>, <<1265, 0, <<>>>>,
       <<1266, 3, <<1267>>>>, <<1267, 0, <<>>>>, <<1268, 3, <<1269>>>>, <<1269, 0, <<>>>>,
       <<1270, 3, <<1271>>>>, <<1271, 0, <<>>>>, <<1272, 3, <<1273>>>>, <<1273, 0, <<>>>>,
       <<1274, 3, <<1275>>>>, <<1275, 0, <<>>>>, <<1276, 3, <<1277>>>>, <<1277, 0, <<>>>>,
       <<1278, 3, <<1279>>>>, <<1279, 0, <<>>>>, <<1280, 3, <<1281>>>>, <<1281, 0, <<>>>>,
       <<1282, 3, <<1283>>>>, <<1283, 0, <<>>>>, <<1284, 3, <<1285>>>>, <<1285, 0, <<>>>>,
       <<1286, 3, <<1287>>>>, <<1287, 0, <<>>>>, <<1288, 3, <<1289>>>>, <<1289, 0, <<>>>>,
       <<1290, 3, <<1291>>>>, <<1291, 0, <<>>>>, <<1292, 3, <<1293>>>>, <<1293, 0, <<>>>>,
       <<1294, 3, <<1295>>>>, <<1295, 0, <<>>>>, <<1296, 3, <<1297>>>>, <<1297, 0, <<>>>>,
       <<1298, 3, <<1299>>>>, <<1299, 0, <<>>>>, <<1300, 3, <<1301>>>>, <<1301, 0, <<>>>>,
       <<1302, 3, <<1303>>>>, <<1303, 0, <<>>>>, <<1304, 3, <<1305>>>>, <<1305, 0, <<>>>>,
       <<1306, 3, <<1307>>>>, <<1307, 0, <<>>>>, <<1308, 3, <<1309>>>>, <<1309, 0, <<>>>>,
       <<1310, 3, <<1311>>>>, <<1311, 0, <<>>>>, <<1312, 3, <<1313>>>>, <<1313, 0, <<>>>>,
       <<1314, 3, <<1315>>>>, <<1315, 0, <<>>>>, <<1316, 3, <<1317>>>>, <<1317, 0, <<>>>>,
       <<1318, 3, <<1319>>>>, <<1319, 0, <<>>>>, <<1320, 3, <<1321>>>>, <<1321, 0, <<>>>>,
       <<1322, 3, <<1323>>>>, <<1323, 0, <<>>>>, <<1324, 3, <<1325>>>>, <<1325, 0, <<>>>>,
       <<1326, 3, <<1327>>>>, <<1327, 0, <<>>>>, <<1328, 1, <<>>>>, <<1329, 3, <<1377>>>>,
       <<1330, 3, <<1378>>>>, <<1331, 3, <<1379>>>>, <<1332, 3, <<1380>>>>, <<1333, 3, <<1381>>>>,
       <<1334, 3, <<1382>>>>, <<1335, 3, <<1383>>>>, <<1336, 3, <<1384>>>>, <<1337, 3, <<1385>>>>,
       <<1338, 3, <<1386>>>>, <<1339, 3, <<1387>>>>, <<1340, 3, <<1388>>>>, <<1341, 3, <<1389>>>>,
       <<1342, 3, <<1390>>>>, <<1343, 3, <<1391>>>>, <<1344, 3, <<1392>>>>, <<1345, 3, <<1393>>>>,
       <<1346, 3, <<1394>>>>, <<1347, 3, <<1395>>>>, <<1348, 3, <<1396>>>>, <<1349, 3, <<1397>>>>,
       <<1350, 3, <<1398>>>>, <<1351, 3, <<1399>>>>, <<1352, 3, <<1400>>>>, <<1353, 3, <<1401>>>>,
       <<1354, 3, <<1402>>>>, <<1355, 3, <<1403>>>>, <<1356, 3, <<1404>>>>, <<1357, 3, <<1405>>>>,
       <<1358, 3, <<1406>>>>, <<1359, 3, <<1407>>>>, <<1360, 3, <<1408>>>>, <<1361, 3, <<1409>>>>,
       <<1362, 3, <<1410>>>>, <<1363, 3, <<1411>>>>, <<1364, 3, <<1412>>>>, <<1365, 3, <<1413>>>>,
       <<1366, 3, <<1414>>>>, <<1367, 1, <<>>>>, <<1369, 0, <<>>>>, <<1415, 3, <<1381, 1410>>>>,
       <<1416, 0, <<>>>>, <<1419, 1, <<>>>>, <<1421, 0, <<>>>>, <<1424, 1, <<>>>>,
       <<1425, 0, <<>>>>, <<1480, 1, <<>>>>, <<1488, 0, <<>>>>, <<1515, 1, <<>>>>,
       <<1519, 0, <<>>>>, <<1525, 1, <<>>>>, <<1542, 0, <<>>>>, <<1564, 1, <<>>>>,
       <<1565, 0, <<>>>>, <<1653, 3, <<1575, 1652>>>>, <<1654, 3, <<1608, 1652>>>>,
       <<1655, 3, <<1735, 1652>>>>, <<1656, 3, <<1610, 1652>>>>, <<1657, 0, <<>>>>,
       <<1757, 1, <<>>>>, <<1758, 0, <<>>>>, <<1806, 1, <<>>>>, <<1808, 0, <<>>>>,
       <<1867, 1, <<>>>>, <<1869, 0, <<>>>>, <<1970, 1, <<>>>>, <<1984, 0, <<>>>>,
       <<2043, 1, <<>>>>, <<2045, 0, <<>>>>, <<2094, 1, <<>>>>, <<2096, 0, <<>>>>,
       <<2111, 1, <<>>>>, <<2112, 0, <<>>>>, <<2140, 1, <<>>>>, <<2142, 0, <<>>>>,
       <<2143, 1, <<>>>>, <<2144, 0, <<>>>>, <<2155, 1, <<>>>>, <<2160, 0, <<>>>>,
       <<2191, 1, <<>>>>, <<2200, 0, <<>>>>, <<2274, 1, <<>>>>, <<2275, 0, <<>>>>,
       <<2392, 3, <<2325, 2364>>>>, <<2393, 3, <<2326, 2364>>>>, <<2394, 3, <<2327, 2364>>>>,
       <<2395, 3, <<2332, 2364>>>>, <<2396, 3, <<2337, 2364>>>>, <<2397, 3, <<2338, 2364>>>>,
       <<2398, 3, <<2347, 2364>>>>, <<2399, 3, <<2351, 2364>>>>, <<2400, 0, <<>>>>,
       <<2436, 1, <<>>>>, <<2437, 0, <<>>>>, <<2445, 1, <<>>>>, <<2447, 0, <<>>>>,
       <<2449, 1, <<>>>>, <<2451, 0, <<>>>>, <<2473, 1, <<>>>>, <<2474, 0, <<>>>>,
       <<2481, 1, <<>>>>, <<2482, 0, <<>>>>, <<2483, 1, <<>>>>, <<2486, 0, <<>>>>,
       <<2490, 1, <<>>>>, <<2492, 0, <<>>>>, <<2501, 1, <<>>>>, <<2503, 0, <<>>>>,
       <<2505, 1, <<>>>>, <<2507, 0, <<>>>>, <<2511, 1, <<>>>>, <<2519, 0, <<>>>>,
       <<2520, 1, <<>>>>, <<2524, 3, <<2465, 2492>>>>, <<2525, 3, <<2466, 2492>>>>,
       <<2526, 1, <<>>>>, <<2527, 3, <<2479, 2492>>>>, <<2528, 0, <<>>>>, <<2532, 1, <<>>>>,
       <<2534, 0, <<>>>>, <<2559, 1, <<>>>>, <<2561, 0, <<>>>>, <<2564, 1, <<>>>>,
       <<2565, 0, <<>>>>, <<2571, 1, <<>>>>, <<2575, 0, <<>>>>, <<2577, 1, <<>>>>,
       <<2579, 0, <<>>>>, <<2601, 1, <<>>>>, <<2602, 0, <<>>>>, <<2609, 1, <<>>>>,
       <<2610, 0, <<>>>>, <<2611, 3, <<2610, 2620>>>>, <<2612, 1, <<>>>>, <<2613, 0, <<>>>>,
       <<2614, 3, <<2616, 2620>>>>, <<2615, 1, <<>>>>, <<2616, 0, <<>>>>, <<2618, 1, <<>>>>,
       <<2620, 0, <<>>>>, <<2621, 1, <<>>>>, <<2622, 0, <<>>>>, <<2627, 1, <<>>>>,
       <<2631, 0, <<>>>>, <<2633, 1, <<>>>>, <<2635, 0, <<>>>>, <<2638, 1, <<>>>>,
       <<2641, 0, <<>>>>, <<2642, 1, <<>>>>, <<2649, 3, <<2582, 2620>>>>,
       <<2650, 3, <<2583, 2620>>>>, <<2651, 3, <<2588, 2620>>>>, <<2652, 0, <<>>>>,
       <<2653, 1, <<>>>>, <<2654, 3, <<2603, 2620>>>>, <<2655, 1, <<>>>>, <<2662, 0, <<>>>>,
       <<2679, 1, <<>>>>, <<2689, 0, <<>>>>, <<2692, 1, <<>>>>, <<2693, 0, <<>>>>,
       <<2702, 1, <<>>>>, <<2703, 0, <<>>>>, <<2706, 1, <<>>>>, <<2707, 0, <<>>>>,
       <<2729, 1, <<>>>>, <<2730, 0, <<>>>>, <<2737, 1, <<>>>>, <<2738, 0, <<>>>>,
       <<2740, 1, <<>>>>, <<2741, 0, <<>>>>, <<2746, 1, <<>>>>, <<2748, 0, <<>>>>,
       <<2758, 1, <<>>>>, <<2759, 0, <<>>>>, <<2762, 1, <<>>>>, <<2763, 0, <<>>>>,
       <<2766, 1, <<>>>>, <<2768, 0, <<>>>>, <<2769, 1, <<>>>>, <<2784, 0, <<>>>>,
       <<2788, 1, <<>>>>, <<2790, 0, <<>>>>, <<2802, 1, <<>>>>, <<2809, 0, <<>>>>,
       <<2816, 1, <<>>>>, <<2817, 0, <<>>>>, <<2820, 1, <<>>>>, <<2821, 0, <<>>>>,
       <<2829, 1, <<>>>>, <<2831, 0, <<>>>>, <<2833, 1, <<>>>>, <<2835, 0, <<>>>>,
       <<2857, 1, <<>>>>, <<2858, 0, <<>>>>, <<2865, 1, <<>>>>, <<2866, 0, <<>>>>,
       <<2868, 1, <<>>>>, <<2869, 0, <<>>>>, <<2874, 1, <<>>>>, <<2876, 0, <<>>>>,
       <<2885, 1, <<>>>>, <<2887, 0, <<>>>>, <<2889, 1, <<>>>>, <<2891, 0, <<>>>>,
       <<2894, 1, <<>>>>, <<2901, 0, <<>>>>, <<2904, 1, <<>>>>, <<2908, 3, <<2849, 2876>>>>,
       <<2909, 3, <<2850, 2876>>>>, <<2910, 1, <<>>>>, <<2911, 0, <<>>>>, <<2916, 1, <<>>>>,
       <<2918, 0, <<>>>>, <<2936, 1, <<>>>>, <<2946, 0, <<>>>>, <<2948, 1, <<>>>>,
       <<2949, 0, <<>>>>, <<2955, 1, <<>>>>, <<2958, 0, <<>>>>, <<2961, 1, <<>>>>,
       <<2962, 0, <<>>>>, <<2966, 1, <<>>>>, <<2969, 0, <<>>>>, <<2971, 1, <<>>>>,
       <<2972, 0, <<>>>>, <<2973, 1, <<>>>>, <<2974, 0, <<>>>>, <<2976, 1, <<>>>>,
       <<2979, 0, <<>>>>, <<2981, 1, <<>>>>, <<2984, 0, <<>>>>, <<2987, 1, <<>>>>,
       <<2990, 0, <<>>>>, <<3002, 1, <<>>>>, <<3006, 0, <<>>>>, <<3011, 1, <<>>>>,
       <<3014, 0, <<>>>>, <<3017, 1, <<>>>>, <<3018, 0, <<>>>>, <<3022, 1, <<>>>>,
       <<3024, 0, <<>>>>, <<3025, 1, <<>>>>, <<3031, 0, <<>>>>, <<3032, 1, <<>>>>,
       <<3046, 0, <<>>>>, <<3067, 1, <<>>>>, <<3072, 0, <<>>>>, <<3085, 1, <<>>>>,
       <<3086, 0, <<>>>>, <<3089, 1, <<>>>>, <<3090, 0, <<>>>>, <<3113, 1, <<>>>>,
       <<3114, 0, <<>>>>, <<3130, 1, <<>>>>, <<3132, 0, <<>>>>, <<3141, 1, <<>>>>,
       <<3142, 0, <<>>>>, <<3145, 1, <<>>>>, <<3146, 0, <<>>>>, <<3150, 1, <<>>>>,
       <<3157, 0, <<>>>>, <<3159, 1, <<>>>>, <<3160, 0, <<>>>>, <<3163, 1, <<>>>>,
       <<3165, 0, <<>>>>, <<3166, 1, <<>>>>, <<3168, 0, <<>>>>, <<3172, 1, <<>>>>,
       <<3174, 0, <<>>>>, <<3184, 1, <<>>>>, <<3191, 0, <<>>>>, <<3213, 1, <<>>>>,
       <<3214, 0, <<>>>>, <<3217, 1, <<>>>>, <<3218, 0, <<>>>>, <<3241, 1, <<>>>>,
       <<3242, 0, <<>>>>, <<3252, 1, <<>>>>, <<3253, 0, <<>>>>, <<3258, 1, <<>>>>,
       <<3260, 0, <<>>>>, <<3269, 1, <<>>>>, <<3270, 0, <<>>>>, <<3273, 1, <<>>>>,
       <<3274, 0, <<>>>>, <<3278, 1, <<>>>>, <<3285, 0, <<>>>>, <<3287, 1, <<>>>>,
       <<3293, 0, <<>>>>, <<3295, 1, <<>>>>, <<3296, 0, <<>>>>, <<3300, 1, <<>>>>,
       <<3302, 0, <<>>>>, <<3312, 1, <<>>>>, <<3313, 0, <<>>>>, <<3316, 1, <<>>>>,
       <<3328, 0, <<>>>>, <<3341, 1, <<>>>>, <<3342, 0, <<>>>>, <<3345, 1, <<>>>>,
       <<3346, 0, <<>>>>, <<3397, 1, <<>>>>, <<3398, 0, <<>>>>, <<3401, 1, <<>>>>,
       <<3402, 0, <<>>>>, <<3408, 1, <<>>>>, <<3412, 0, <<>>>>, <<3428, 1, <<>>>>,
       <<3430, 0, <<>>>>, <<3456, 1, <<>>>>, <<3457, 0, <<>>>>, <<3460, 1, <<>>>>,
       <<3461, 0, <<>>>>, <<3479, 1, <<>>>>, <<3482, 0, <<>>>>, <<3506, 1, <<>>>>,
       <<3507, 0, <<>>>>, <<3516, 1, <<>>>>, <<3517, 0, <<>>>>, <<3518, 1, <<>>>>,
       <<3520, 0, <<>>>>, <<3527, 1, <<>>>>, <<3530, 0, <<>>>>, <<3531, 1, <<>>>>,
       <<3535, 0, <<>>>>, <<3541, 1, <<>>>>, <<3542, 0, <<>>>>, <<3543, 1, <<>>>>,
       <<3544, 0, <<>>>>, <<3552, 1, <<>>>>, <<3558, 0, <<>>>>, <<3568, 1, <<>>>>,
       <<3570, 0, <<>>>>, <<3573, 1, <<>>>>, <<3585, 0, <<>>>>, <<3635, 3, <<3661, 3634>>>>,
       <<3636, 0, <<>>>>, <<3643, 1, <<>>>>, <<3647, 0, <<>>>>, <<3676, 1, <<>>>>,
       <<3713, 0, <<>>>>, <<3715, 1, <<>>>>, <<3716, 0, <<>>>>, <<3717, 1, <<>>>>,
       <<3718, 0, <<>>>>, <<3723, 1, <<>>>>, <<3724, 0, <<>>>>, <<3748, 1, <<>>>>,
       <<3749, 0, <<>>>>, <<3750, 1, <<>>>>, <<3751, 0, <<>>>>, <<3763, 3, <<3789, 3762>>>>,
       <<3764, 0, <<>>>>, <<3774, 1, <<>>>>, <<3776, 0, <<>>>>, <<3781, 1, <<>>>>,
       <<3782, 0, <<>>>>, <<3783, 1, <<>>>>, <<3784, 0, <<>>>>, <<3791, 1, <<>>>>,
       <<3792, 0, <<>>>>, <<3802, 1, <<>>>>, <<3804, 3, <<3755, 3737>>>>,
       <<3805, 3, <<3755, 3745>>>>, <<3806, 0, <<>>>>, <<3808, 1, <<>>>>, <<3840, 0, <<>>>>,
       <<3852, 3, <<3851>>>>, <<3853, 0, <<>>>>, <<3907, 3, <<3906, 4023>>>>, <<3908, 0, <<>>>>,
       <<3912, 1, <<>>>>, <<3913, 0, <<>>>>, <<3917, 3, <<3916, 4023>>>>, <<3918, 0, <<>>>>,
       <<3922, 3, <<3921, 4023>>>>, <<3923, 0, <<>>>>, <<3927, 3, <<3926, 4023>>>>,
       <<3928, 0, <<>>>>, <<3932, 3, <<3931, 4023>>>>, <<3933, 0, <<>>>>,
       <<3945, 3, <<3904, 4021>>>>, <<3946, 0, <<>>>>, <<3949, 1, <<>>>>, <<3953, 0, <<>>>>,
       <<3955, 3, <<3953, 3954>>>>, <<3956, 0, <<>>>>, <<3957, 3, <<3953, 3956>>>>,
       <<3958, 3, <<4018, 3968>>>>, <<3959, 3, <<4018, 3953, 3968>>>>, <<3960, 3, <<4019, 3968>>>>,
       <<3961, 3, <<4019, 3953, 3968>>>>, <<3962, 0, <<>>>>, <<3969, 3, <<3953, 3968>>>>,
       <<3970, 0, <<>>>>, <<3987, 3, <<3986, 4023>>>>, <<3988, 0, <<>>>>, <<3992, 1, <<>>>>,
       <<3993, 0, <<>>>>, <<3997, 3, <<3996, 4023>>>>, <<3998, 0, <<>>>>,
       <<4002, 3, <<4001, 4023>>>>, <<4003, 0, <<>>>>, <<4007, 3, <<4006, 4023>>>>,
       <<4008, 0, <<>>>>, <<4012, 3, <<4011, 4023>>>>, <<4013, 0, <<>>>>,
       <<4025, 3, <<3984, 4021>>>>, <<4026, 0, <<>>>>, <<4029, 1, <<>>>>, <<4030, 0, <<>>>>,
       <<4045, 1, <<>>>>, <<4046, 0, <<>>>>, <<4059, 1, <<>>>>, <<4096, 0, <<>>>>,
       <<4256, 1, <<>>>>, <<4295, 3, <<11559>>>>, <<4296, 1, <<>>>>, <<4301, 3, <<11565>>>>,
       <<4302, 1, <<>>>>, <<4304, 0, <<>>>>, <<4348, 3, <<4316>>>>, <<4349, 0, <<>>>>,
       <<4447, 1, <<>>>>, <<4449, 0, <<>>>>, <<4681, 1, <<>>>>, <<4682, 0, <<>>>>,
       <<4686, 1, <<>>>>, <<4688, 0, <<>>>>, <<4695, 1, <<>>>>, <<4696, 0, <<>>>>,
       <<4697, 1, <<>>>>, <<4698, 0, <<>>>>, <<4702, 1, <<>>>>, <<4704, 0, <<>>>>,
       <<4745, 1, <<>>>>, <<4746, 0, <<>>>>, <<4750, 1, <<>>>>, <<4752, 0, <<>>>>,
       <<4785, 1, <<>>>>, <<4786, 0, <<>>>>, <<4790, 1, <<>>>>, <<4792, 0, <<>>>>,
       <<4799, 1, <<>>>>, <<4800, 0, <<>>>>, <<4801, 1, <<>>>>, <<4802, 0, <<>>>>,
       <<4806, 1, <<>>>>, <<4808, 0, <<>>>>, <<4823, 1, <<>>>>, <<4824, 0, <<>>>>,
       <<4881, 1, <<>>>>, <<4882, 0, <<>>>>, <<4886, 1, <<>>>>, <<4888, 0, <<>>>>,
       <<4955, 1, <<>>>>, <<4957, 0, <<>>>>, <<4989, 1, <<>>>>, <<4992, 0, <<>>>>,
       <<5018, 1, <<>>>>, <<5024, 0, <<>>>>, <<5110, 1, <<>>>>, <<5112, 3, <<5104>>>>,
       <<5113, 3, <<5105>>>>, <<5114, 3, <<5106>>>>, <<5115, 3, <<5107>>>>, <<5116, 3, <<5108>>>>,
       <<5117, 3, <<5109>>>>, <<5118, 1, <<>>>>, <<5120, 0, <<>>>>, <<5760, 1, <<>>>>,
       <<5761, 0, <<>>>>, <<5789, 1, <<>>>>, <<5792, 0, <<>>>>, <<5881, 1, <<>>>>,
       <<5888, 0, <<>>>>, <<5910, 1, <<>>>>, <<5919, 0, <<>>>>, <<5943, 1, <<>>>>,
       <<5952, 0, <<>>>>, <<5972, 1, <<>>>>, <<5984, 0, <<>>>>, <<5997, 1, <<>>>>,
       <<5998, 0, <<>>>>, <<6001, 1, <<>>>>, <<6002, 0, <<>>>>, <<6004, 1, <<>>>>,
       <<6016, 0, <<>>>>, <<6068, 1, <<>>>>, <<6070, 0, <<>>>>, <<6110, 1, <<>>>>,
       <<6112, 0, <<>>>>, <<6122, 1, <<>>>>, <<6128, 0, <<>>>>, <<6138, 1, <<>>>>,
       <<6144, 0, <<>>>>, <<6150, 1, <<>>>>, <<6151, 0, <<>>>>, <<6155, 2, <<>>>>,
       <<6158, 1, <<>>>>, <<6159, 2, <<>>>>, <<6160, 0, <<>>>>, <<6170, 1, <<>>>>,
       <<6176, 0, <<>>>>, <<6265, 1, <<>>>>, <<6272, 0, <<>>>>, <<6315, 1, <<>>>>,
       <<6320, 0, <<>>>>, <<6390, 1, <<>>>>, <<6400, 0, <<>>>>, <<6431, 1, <<>>>>,
       <<6432, 0, <<>>>>, <<6444, 1, <<>>>>, <<6448, 0, <<>>>>, <<6460, 1, <<>>>>,
       <<6464, 0, <<>>>>, <<6465, 1, <<>>>>, <<6468, 0, <<>>>>, <<6510, 1, <<>>>>,
       <<6512, 0, <<>>>>, <<6517, 1, <<>>>>, <<6528, 0, <<>>>>, <<6572, 1, <<>>>>,
       <<6576, 0, <<>>>>, <<6602, 1, <<>>>>, <<6608, 0, <<>>>>, <<6619, 1, <<>>>>,
       <<6622, 0, <<>>>>, <<6684, 1, <<>>>>, <<6686, 0, <<>>>>, <<6751, 1, <<>>>>,
       <<6752, 0, <<>>>>, <<6781, 1, <<>>>>, <<6783, 0, <<>>>>, <<6794, 1, <<>>>>,
       <<6800, 0, <<>>>>, <<6810, 1, <<>>>>, <<6816, 0, <<>>>>, <<6830, 1, <<>>>>,
       <<6832, 0, <<>>>>, <<6863, 1, <<>>>>, <<6912, 0, <<>>>>, <<6989, 1, <<>>>>,
       <<6992, 0, <<>>>>, <<7039, 1, <<>>>>, <<7040, 0, <<>>>>, <<7156, 1, <<>>>>,
       <<7164, 0, <<>>>>, <<7224, 1, <<>>>>, <<7227, 0, <<>>>>, <<7242, 1, <<>>>>,
       <<7245, 0, <<>>>>, <<7296, 3, <<1074>>>>, <<7297, 3, <<1076>>>>, <<7298, 3, <<1086>>>>,
       <<7299, 3, <<1089>>>>, <<7300, 3, <<1090>>>>, <<7302, 3, <<1098>>>>, <<7303, 3, <<1123>>>>,
       <<7304, 3, <<42571>>>>, <<7305, 1, <<>>>>, <<7312, 3, <<4304>>>>, <<7313, 3, <<4305>>>>,
       <<7314, 3, <<4306>>>>, <<7315, 3, <<4307>>>>, <<7316, 3, <<4308>>>>, <<7317, 3, <<4309>>>>,
       <<7318, 3, <<4310>>>>, <<7319, 3, <<4311>>>>, <<7320, 3, <<4312>>>>, <<7321, 3, <<4313>>>>,
       <<7322, 3, <<4314>>>>, <<7323, 3, <<4315>>>>, <<7324, 3, <<4316>>>>, <<7325, 3, <<4317>>>>,
       <<7326, 3, <<4318>>>>, <<7327, 3, <<4319>>>>, <<7328, 3, <<4320>>>>, <<7329, 3, <<4321>>>>,
       <<7330, 3, <<4322>>>>, <<7331, 3, <<4323>>>>, <<7332, 3, <<4324>>>>, <<7333, 3, <<4325>>>>,
       <<7334, 3, <<4326>>>>, <<7335, 3, <<4327>>>>, <<7336, 3, <<4328>>>>, <<7337, 3, <<4329>>>>,
       <<7338, 3, <<4330>>>>, <<7339, 3, <<4331>>>>, <<7340, 3, <<4332>>>>, <<7341, 3, <<4333>>>>,
       <<7342, 3, <<4334>>>>, <<7343, 3, <<4335>>>>, <<7344, 3, <<4336>>>>, <<7345, 3, <<4337>>>>,
       <<7346, 3, <<4338>>>>, <<7347, 3, <<4339>>>>, <<7348, 3, <<4340>>>>, <<7349, 3, <<4341>>>>,
       <<7350, 3, <<4342>>>>, <<7351, 3, <<4343>>>>, <<7352, 3, <<4344>>>>, <<7353, 3, <<4345>>>>,
       <<7354, 3, <<4346>>>>, <<7355, 1, <<>>>>, <<7357, 3, <<4349>>>>, <<7358, 3, <<4350>>>>,
       <<7359, 3, <<4351>>>>, <<7360, 0, <<>>>>, <<7368, 1, <<>>>>, <<7376, 0, <<>>>>,
       <<7419, 1, <<>>>>, <<7424, 0, <<>>>>, <<7468, 3, <<97>>>>, <<7469, 3, <<230>>>>,
       <<7470, 3, <<98>>>>, <<7471, 0, <<>>>>, <<7472, 3, <<100>>>>, <<7473, 3, <<101>>>>,
       <<7474, 3, <<477>>>>, <<7475, 3, <<103>>>>, <<7476, 3, <<104>>>>, <<7477, 3, <<105>>>>,
       <<7478, 3, <<106>>>>, <<7479, 3, <<107>>>>, <<7480, 3, <<108>>>>, <<7481, 3, <<109>>>>,
       <<7482, 3, <<110>>>>, <<7483, 0, <<>>>>, <<7484, 3, <<111>>>>, <<7485, 3, <<547>>>>,
       <<7486, 3, <<112>>>>, <<7487, 3, <<114>>>>, <<7488, 3, <<116>>>>, <<7489, 3, <<117>>>>,
       <<7490, 3, <<119>>>>, <<7491, 3, <<97>>>>, <<7492, 3, <<592>>>>, <<7493, 3, <<593>>>>,
       <<7494, 3, <<7426>>>>, <<7495, 3, <<98>>>>, <<7496, 3, <<100>>>>, <<7497, 3, <<101>>>>,
       <<7498, 3, <<601>>>>, <<7499, 3, <<603>>>>, <<7500, 3, <<604>>>>, <<7501, 3, <<103>>>>,
       <<7502, 0, <<>>>>, <<7503, 3, <<107>>>>, <<7504, 3, <<109>>>>, <<7505, 3, <<331>>>>,
       <<7506, 3, <<111>>>>, <<7507, 3, <<596>>>>, <<7508, 3, <<7446>>>>, <<7509, 3, <<7447>>>>,
       <<7510, 3, <<112>>>>, <<7511, 3, <<116>>>>, <<7512, 3, <<117>>>>, <<7513, 3, <<7453>>>>,
       <<7514, 3, <<623>>>>, <<7515, 3, <<118>>>>, <<7516, 3, <<7461>>>>, <<7517, 3, <<946>>>>,
       <<7518, 3, <<947>>>>, <<7519, 3, <<948>>>>, <<7520, 3, <<966>>>>, <<7521, 3, <<967>>>>,
       <<7522, 3, <<105>>>>, <<7523, 3, <<114>>>>, <<7524, 3, <<117>>>>, <<7525, 3, <<118>>>>,
       <<7526, 3, <<946>>>>, <<7527, 3, <<947>>>>, <<7528, 3, <<961>>>>, <<7529, 3, <<966>>>>,
       <<7530, 3, <<967>>>>, <<7531, 0, <<>>>>, <<7544, 3, <<1085>>>>, <<7545, 0, <<>>>>,
       <<7579, 3, <<594>>>>, <<7580, 3, <<99>>>>, <<7581, 3, <<597>>>>, <<7582, 3, <<240>>>>,
       <<7583, 3, <<604>>>>, <<7584, 3, <<102>>>>, <<7585, 3, <<607>>>>, <<7586, 3, <<609>>>>,
       <<7587, 3, <<613>>>>, <<7588, 3, <<616>>>>, <<7589, 3, <<617>>>>, <<7590, 3, <<618>>>>,
       <<7591, 3, <<7547>>>>, <<7592, 3, <<669>>>>, <<7593, 3, <<621>>>>, <<7594, 3, <<7557>>>>,
       <<7595, 3, <<671>>>>, <<7596, 3, <<625>>>>, <<7597, 3, <<624>>>>, <<7598, 3, <<626>>>>,
       <<7599, 3, <<627>>>>, <<7600, 3, <<628>>>>, <<7601, 3, <<629>>>>, <<7602, 3, <<632>>>>,
       <<7603, 3, <<642>>>>, <<7604, 3, <<643>>>>, <<7605, 3, <<427>>>>, <<7606, 3, <<649>>>>,
       <<7607, 3, <<650>>>>, <<7608, 3, <<7452>>>>, <<7609, 3, <<651>>>>, <<7610, 3, <<652>>>>,
       <<7611, 3, <<122>>>>, <<7612, 3, <<656>>>>, <<7613, 3, <<657>>>>, <<7614, 3, <<658>>>>,
       <<7615, 3, <<952>>>>, <<7616, 0, <<>>>>, <<7680, 3, <<7681>>>>, <<7681, 0, <<>>>>,
       <<7682, 3, <<7683>>>>, <<7683, 0, <<>>>>, <<7684, 3, <<7685>>>>, <<7685, 0, <<>>>>,
       <<7686, 3, <<7687>>>>, <<7687, 0, <<>>>>, <<7688, 3, <<7689>>>>, <<7689, 0, <<>>>>,
       <<7690, 3, <<7691>>>>, <<7691, 0, <<>>>>, <<7692, 3, <<7693>>>>, <<7693, 0, <<>>>>,
       <<7694, 3, <<7695>>>>, <<7695, 0, <<>>>>, <<7696, 3, <<7697>>>>, <<7697, 0, <<>>>>,
       <<7698, 3, <<7699>>>>, <<7699, 0, <<>>>>, <<7700, 3, <<7701>>>>, <<7701, 0, <<>>>>,
       <<7702, 3, <<7703>>>>, <<7703, 0, <<>>>>, <<7704, 3, <<7705>>>>, <<7705, 0, <<>>>>,
       <<7706, 3, <<7707>>>>, <<7707, 0, <<>>>>, <<7708, 3, <<7709>>>>, <<7709, 0, <<>>>>,
       <<7710, 3, <<7711>>>>, <<7711, 0, <<>>>>, <<7712, 3, <<7713>>>>, <<7713, 0, <<>>>>,
       <<7714, 3, <<7715>>>>, <<7715, 0, <<>>>>, <<7716, 3, <<7717>>>>, <<7717, 0, <<>>>>,
       <<7718, 3, <<7719>>>>, <<7719, 0, <<>>>>, <<7720, 3, <<7721>>>>, <<7721, 0, <<>>>>,
       <<7722, 3, <<7723>>>>, <<7723, 0, <<>>>>, <<7724, 3, <<7725>>>>, <<7725, 0, <<>>>>,
       <<7726, 3, <<7727>>>>, <<7727, 0, <<>>>>, <<7728, 3, <<7729>>>>, <<7729, 0, <<>>>>,
       <<7730, 3, <<7731>>>>, <<7731, 0, <<>>>>, <<7732, 3, <<7733>>>>, <<7733, 0, <<>>>>,
       <<7734, 3, <<7735>>>>, <<7735, 0, <<>>>>, <<7736, 3, <<7737>>>>, <<7737, 0, <<>>>>,
       <<7738, 3, <<7739>>>>, <<7739, 0, <<>>>>, <<7740, 3, <<7741>>>>, <<7741, 0, <<>>>>,
       <<7742, 3, <<7743>>>>, <<7743, 0, <<>>>>, <<7744, 3, <<7745>>>>, <<7745, 0, <<>>>>,
       <<7746, 3, <<7747>>>>, <<7747, 0, <<>>>>, <<7748, 3, <<7749>>>>, <<7749, 0, <<>>>>,
       <<7750, 3, <<7751>>>>, <<7751, 0, <<>>>>, <<7752, 3, <<7753>>>>, <<7753, 0, <<>>>>,
       <<7754, 3, <<7755>>>>, <<7755, 0, <<>>>>, <<7756, 3, <<7757>>>>, <<7757, 0, <<>>>>,
       <<7758, 3, <<7759>>>>, <<7759, 0, <<>>>>, <<7760, 3, <<7761>>>>, <<7761, 0, <<>>>>,
       <<7762, 3, <<7763>>>>, <<7763, 0, <<>>>>, <<7764, 3, <<7765>>>>, <<7765, 0, <<>>>>,
       <<7766, 3, <<7767>>>>, <<7767, 0, <<>>>>, <<7768, 3, <<7769>>>>, <<7769, 0, <<>>>>,
       <<7770, 3, <<7771>>>>, <<7771, 0, <<>>>>, <<7772, 3, <<7773>>>>, <<7773, 0, <<>>>>,
       <<7774, 3, <<7775>>>>, <<7775, 0, <<>>>>, <<7776, 3, <<7777>>>>, <<7777, 0, <<>>>>,
       <<7778, 3, <<7779>>>>, <<7779, 0, <<>>>>, <<7780, 3, <<7781>>>>, <<7781, 0, <<>>>>,
       <<7782, 3, <<7783>>>>, <<7783, 0, <<>>>>, <<7784, 3, <<7785>>>>, <<7785, 0, <<>>>>,
       <<7786, 3, <<7787>>>>, <<7787, 0, <<>>>>, <<7788, 3, <<7789>>>>, <<7789, 0, <<>>>>,
       <<7790, 3, <<7791>>>>, <<7791, 0, <<>>>>, <<7792, 3, <<7793>>>>, <<7793, 0, <<>>>>,
       <<7794, 3, <<7795>>>>, <<7795, 0, <<>>>>, <<7796, 3, <<7797>>>>, <<7797, 0, <<>>>>,
       <<7798, 3, <<7799>>>>, <<7799, 0, <<>>>>, <<7800, 3, <<7801>>>>, <<7801, 0, <<>>>>,
       <<7802, 3, <<7803>>>>, <<7803, 0, <<>>>>, <<7804, 3, <<7805>>>>, <<7805, 0, <<>>>>,
       <<7806, 3, <<7807>>>>, <<7807, 0, <<>>>>, <<7808, 3, <<7809>>>>, <<7809, 0, <<>>>>,
       <<7810, 3, <<7811>>>>, <<7811, 0, <<>>>>, <<7812, 3, <<7813>>>>, <<7813, 0, <<>>>>,
       <<7814, 3, <<7815>>>>, <<7815, 0, <<>>>>, <<7816, 3, <<7817>>>>, <<7817, 0, <<>>>>,
       <<7818, 3, <<7819>>>>, <<7819, 0, <<>>>>, <<7820, 3, <<7821>>>>, <<7821, 0, <<>>>>,
       <<7822, 3, <<7823>>>>, <<7823, 0, <<>>>>, <<7824, 3, <<7825>>>>, <<7825, 0, <<>>>>,
       <<7826, 3, <<7827>>>>, <<7827, 0, <<>>>>, <<7828, 3, <<7829>>>>, <<7829, 0, <<>>>>,
       <<7834, 3, <<97, 702>>>>, <<7835, 3, <<7777>>>>, <<7836, 0, <<>>>>,
       <<7838, 3, <<115, 115>>>>, <<7839, 0, <<>>>>, <<7840, 3, <<7841>>>>, <<7841, 0, <<>>>>,
       <<7842, 3, <<7843>>>>, <<7843, 0, <<>>>>, <<7844, 3, <<7845>>>>, <<7845, 0, <<>>>>,
       <<7846, 3, <<7847>>>>, <<7847, 0, <<>>>>, <<7848, 3, <<7849>>>>, <<7849, 0, <<>>>>,
       <<7850, 3, <<7851>>>>, <<7851, 0, <<>>>>, <<7852, 3, <<7853>>>>, <<7853, 0, <<>>>>,
       <<7854, 3, <<7855>>>>, <<7855, 0, <<>>>>, <<7856, 3, <<7857>>>>, <<7857, 0, <<>>>>,
       <<7858, 3, <<7859>>>>, <<7859, 0, <<>>>>, <<7860, 3, <<7861>>>>, <<7861, 0, <<>>>>,
       <<7862, 3, <<7863>>>>, <<7863, 0, <<>>>>, <<7864, 3, <<7865>>>>, <<7865, 0, <<>>>>,
       <<7866, 3, <<7867>>>>, <<7867, 0, <<>>>>, <<7868, 3, <<7869>>>>, <<7869, 0, <<>>>>,
       <<7870, 3, <<7871>>>>, <<7871, 0, <<>>>>, <<7872, 3, <<7873>>>>, <<7873, 0, <<>>>>,
       <<7874, 3, <<7875>>>>, <<7875, 0, <<>>>>, <<7876, 3, <<7877>>>>, <<7877, 0, <<>>>>,
       <<7878, 3, <<7879>>>>, <<7879, 0, <<>>>>, <<7880, 3, <<7881>>>>, <<7881, 0, <<>>>>,
       <<7882, 3, <<7883>>>>, <<7883, 0, <<>>>>, <<7884, 3, <<7885>>>>, <<7885, 0, <<>>>>,
       <<7886, 3, <<7887>>>>, <<7887, 0, <<>>>>, <<7888, 3, <<7889>>>>, <<7889, 0, <<>>>>,
       <<7890, 3, <<7891>>>>, <<7891, 0, <<>>>>, <<7892, 3, <<7893>>>>, <<7893, 0, <<>>>>,
       <<7894, 3, <<7895>>>>, <<7895, 0, <<>>>>, <<7896, 3, <<7897>>>>, <<7897, 0, <<>>>>,
       <<7898, 3, <<7899>>>>, <<7899, 0, <<>>>>, <<7900, 3, <<7901>>>>, <<7901, 0, <<>>>>,
       <<7902, 3, <<7903>>>>, <<7903, 0, <<>>>>, <<7904, 3, <<7905>>>>, <<7905, 0, <<>>>>,
       <<7906, 3, <<7907>>>>, <<7907, 0, <<>>>>, <<7908, 3, <<7909>>>>, <<7909, 0, <<>>>>,
       <<7910, 3, <<7911>>>>, <<7911, 0, <<>>>>, <<7912, 3, <<7913>>>>, <<7913, 0, <<>>>>,
       <<7914, 3, <<7915>>>>, <<7915, 0, <<>>>>, <<7916, 3, <<7917>>>>, <<7917, 0, <<>>>>,
       <<7918, 3, <<7919>>>>, <<7919, 0, <<>>>>, <<7920, 3, <<7921>>>>, <<7921, 0, <<>>>>,
       <<7922, 3, <<7923>>>>, <<7923, 0, <<>>>>, <<7924, 3, <<7925>>>>, <<7925, 0, <<>>>>,
       <<7926, 3, <<7927>>>>, <<7927, 0, <<>>>>, <<7928, 3, <<7929>>>>, <<7929, 0, <<>>>>,
       <<7930, 3, <<7931>>>>, <<7931, 0, <<>>>>, <<7932, 3, <<7933>>>>, <<7933, 0, <<>>>>,
       <<7934, 3, <<7935>>>>, <<7935, 0, <<>>>>, <<7944, 3, <<7936>>>>, <<7945, 3, <<7937>>>>,
       <<7946, 3, <<7938>>>>, <<7947, 3, <<7939>>>>, <<7948, 3, <<7940>>>>, <<7949, 3, <<7941>>>>,
       <<7950, 3, <<7942>>>>, <<7951, 3, <<7943>>>>, <<7952, 0, <<>>>>, <<7958, 1, <<>>>>,
       <<7960, 3, <<7952>>>>, <<7961, 3, <<7953>>>>, <<7962, 3, <<7954>>>>, <<7963, 3, <<7955>>>>,
       <<7964, 3, <<7956>>>>, <<7965, 3, <<7957>>>>, <<7966, 1, <<>>>>, <<7968, 0, <<>>>>,
       <<7976, 3, <<7968>>>>, <<7977, 3, <<7969>>>>, <<7978, 3, <<7970>>>>, <<7979, 3, <<7971>>>>,
       <<7980, 3, <<7972>>>>, <<7981, 3, <<7973>>>>, <<7982, 3, <<7974>>>>, <<7983, 3, <<7975>>>>,
       <<7984, 0, <<>>>>, <<7992, 3, <<7984>>>>, <<7993, 3, <<7985>>>>, <<7994, 3, <<7986>>>>,
       <<7995, 3, <<7987>>>>, <<7996, 3, <<7988>>>>, <<7997, 3, <<7989>>>>, <<7998, 3, <<7990>>>>,
       <<7999, 3, <<7991>>>>, <<8000, 0, <<>>>>, <<8006, 1, <<>>>>, <<8008, 3, <<8000>>>>,
       <<8009, 3, <<8001>>>>, <<8010, 3, <<8002>>>>, <<8011, 3, <<8003>>>>, <<8012, 3, <<8004>>>>,
       <<8013, 3, <<8005>>>>, <<8014, 1, <<>>>>, <<8016, 0, <<>>>>, <<8024, 1, <<>>>>,
       <<8025, 3, <<8017>>>>, <<8026, 1, <<>>>>, <<8027, 3, <<8019>>>>, <<8028, 1, <<>>>>,
       <<8029, 3, <<8021>>>>, <<8030, 1, <<>>>>, <<8031, 3, <<8023>>>>, <<8032, 0, <<>>>>,
       <<8040, 3, <<8032>>>>, <<8041, 3, <<8033>>>>, <<8042, 3, <<8034>>>>, <<8043, 3, <<8035>>>>,
       <<8044, 3, <<8036>>>>, <<8045, 3, <<8037>>>>, <<8046, 3, <<8038>>>>, <<8047, 3, <<8039>>>>,
       <<8048, 0, <<>>>>, <<8049, 3, <<940>>>>, <<8050, 0, <<>>>>, <<8051, 3, <<941>>>>,
       <<8052, 0, <<>>>>, <<8053, 3, <<942>>>>, <<8054, 0, <<>>>>, <<8055, 3, <<943>>>>,
       <<8056, 0, <<>>>>, <<8057, 3, <<972>>>>, <<8058, 0, <<>>>>, <<8059, 3, <<973>>>>,
       <<8060, 0, <<>>>>, <<8061, 3, <<974>>>>, <<8062, 1, <<>>>>, <<8064, 3, <<7936, 953>>>>,
       <<8065, 3, <<7937, 953>>>>, <<8066, 3, <<7938, 953>>>>, <<8067, 3, <<7939, 953>>>>,
       <<8068, 3, <<7940, 953>>>>, <<8069, 3, <<7941, 953>>>>, <<8070, 3, <<7942, 953>>>>,
       <<8071, 3, <<7943, 953>>>>, <<8072, 3, <<7936, 953>>>>, <<8073, 3, <<7937, 953>>>>,
       <<8074, 3, <<7938, 953>>>>, <<8075, 3, <<7939, 953>>>>, <<8076, 3, <<7940, 953>>>>,
       <<8077, 3, <<7941, 953>>>>, <<8078, 3, <<7942, 953>>>>, <<8079, 3, <<7943, 953>>>>,
       <<8080, 3, <<7968, 953>>>>, <<8081, 3, <<7969, 953>>>>, <<8082, 3, <<7970, 953>>>>,
       <<8083, 3, <<7971, 953>>>>, <<8084, 3, <<7972, 953>>>>, <<8085, 3, <<7973, 953>>>>,
       <<8086, 3, <<7974, 953>>>>, <<8087, 3, <<7975, 953>>>>, <<8088, 3, <<7968, 953>>>>,
       <<8089, 3, <<7969, 953>>>>, <<8090, 3, <<7970, 953>>>>, <<8091, 3, <<7971, 953>>>>,
       <<8092, 3, <<7972, 953>>>>, <<8093, 3, <<7973, 953>>>>, <<8094, 3, <<7974, 953>>>>,
       <<8095, 3, <<7975, 953>>>>, <<8096, 3, <<8032, 953>>>>, <<8097, 3, <<8033, 953>>>>,
       <<8098, 3, <<8034, 953>>>>, <<8099, 3, <<8035, 953>>>>, <<8100, 3, <<8036, 953>>>>,
       <<8101, 3, <<8037, 953>>>>, <<8102, 3, <<8038, 953>>>>, <<8103, 3, <<8039, 953>>>>,
       <<8104, 3, <<8032, 953>>>>, <<8105, 3, <<8033, 953>>>>, <<8106, 3, <<8034, 953>>>>,
       <<8107, 3, <<8035, 953>>>>, <<8108, 3, <<8036, 953>>>>, <<8109, 3, <<8037, 953>>>>,
       <<8110, 3, <<8038, 953>>>>, <<8111, 3, <<8039, 953>>>>, <<8112, 0, <<>>>>,
       <<8114, 3, <<8048, 953>>>>, <<8115, 3, <<945, 953>>>>, <<8116, 3, <<940, 953>>>>,
       <<8117, 1, <<>>>>, <<8118, 0, <<>>>>, <<8119, 3, <<8118, 953>>>>, <<8120, 3, <<8112>>>>,
       <<8121, 3, <<8113>>>>, <<8122, 3, <<8048>>>>, <<8123, 3, <<940>>>>,
       <<8124, 3, <<945, 953>>>>, <<8125, 3, <<32, 787>>>>, <<8126, 3, <<953>>>>,
       <<8127, 3, <<32, 787>>>>, <<8128, 3, <<32, 834>>>>, <<8129, 3, <<32, 776, 834>>>>,
       <<8130, 3, <<8052, 953>>>>, <<8131, 3, <<951, 953>>>>, <<8132, 3, <<942, 953>>>>,
       <<8133, 1, <<>>>>, <<8134, 0, <<>>>>, <<8135, 3, <<8134, 953>>>>, <<8136, 3, <<8050>>>>,
       <<8137, 3, <<941>>>>, <<8138, 3, <<8052>>>>, <<8139, 3, <<942>>>>,
       <<8140, 3, <<951, 953>>>>, <<8141, 3, <<32, 787, 768>>>>, <<8142, 3, <<32, 787, 769>>>>,
       <<8143, 3, <<32, 787, 834>>>>, <<8144, 0, <<>>>>, <<8147, 3, <<912>>>>, <<8148, 1, <<>>>>,
       <<8150, 0, <<>>>>, <<8152, 3, <<8144>>>>, <<8153, 3, <<8145>>>>, <<8154, 3, <<8054>>>>,
       <<8155, 3, <<943>>>>, <<8156, 1, <<>>>>, <<8157, 3, <<32, 788, 768>>>>,
       <<8158, 3, <<32, 788, 769>>>>, <<8159, 3, <<32, 788, 834>>>>, <<8160, 0, <<>>>>,
       <<8163, 3, <<944>>>>, <<8164, 0, <<>>>>, <<8168, 3, <<8160>>>>, <<8169, 3, <<8161>>>>,
       <<8170, 3, <<8058>>>>, <<8171, 3, <<973>>>>, <<8172, 3, <<8165>>>>,
       <<8173, 3, <<32, 776, 768>>>>, <<8174, 3, <<32, 776, 769>>>>, <<8175, 3, <<96>>>>,
       <<8176, 1, <<>>>>, <<8178, 3, <<8060, 953>>>>, <<8179, 3, <<969, 953>>>>,
       <<8180, 3, <<974, 953>>>>, <<8181, 1, <<>>>>, <<8182, 0, <<>>>>, <<8183, 3, <<8182, 953>>>>,
       <<8184, 3, <<8056>>>>, <<8185, 3, <<972>>>>, <<8186, 3, <<8060>>>>, <<8187, 3, <<974>>>>,
       <<8188, 3, <<969, 953>>>>, <<8189, 3, <<32, 769>>>>, <<8190, 3, <<32, 788>>>>,
       <<8191, 1, <<>>>>, <<8192, 3, <<32>>>>, <<8203, 2, <<>>>>, <<8204, 0, <<>>>>,
       <<8206, 1, <<>>>>, <<8208, 0, <<>>>>, <<8209, 3, <<8208>>>>, <<8210, 0, <<>>>>,
       <<8215, 3, <<32, 819>>>>, <<8216, 0, <<>>>>, <<8228, 1, <<>>>>, <<8231, 0, <<>>>>,
       <<8232, 1, <<>>>>, <<8239, 3, <<32>>>>, <<8240, 0, <<>>>>, <<8243, 3, <<8242, 8242>>>>,
       <<8244, 3, <<8242, 8242, 8242>>>>, <<8245, 0, <<>>>>, <<8246, 3, <<8245, 8245>>>>,
       <<8247, 3, <<8245, 8245, 8245>>>>, <<8248, 0, <<>>>>, <<8252, 3, <<33, 33>>>>,
       <<8253, 0, <<>>>>, <<8254, 3, <<32, 773>>>>, <<8255, 0, <<>>>>, <<8263, 3, <<63, 63>>>>,
       <<8264, 3, <<63, 33>>>>, <<8265, 3, <<33, 63>>>>, <<8266, 0, <<>>>>,
       <<8279, 3, <<8242, 8242, 8242, 8242>>>>, <<8280, 0, <<>>>>, <<8287, 3, <<32>>>>,
       <<8288, 2, <<>>>>, <<8289, 1, <<>>>>, <<8292, 2, <<>>>>, <<8293, 1, <<>>>>,
       <<8304, 3, <<48>>>>, <<8305, 3, <<105>>>>, <<8306, 1, <<>>>>, <<8308, 3, <<52>>>>,
       <<8309, 3, <<53>>>>, <<8310, 3, <<54>>>>, <<8311, 3, <<55>>>>, <<8312, 3, <<56>>>>,
       <<8313, 3, <<57>>>>, <<8314, 3, <<43>>>>, <<8315, 3, <<8722>>>>, <<8316, 3, <<61>>>>,
       <<8317, 3, <<40>>>>, <<8318, 3, <<41>>>>, <<8319, 3, <<110>>>>, <<8320, 3, <<48>>>>,
       <<8321, 3, <<49>>>>, <<8322, 3, <<50>>>>, <<8323, 3, <<51>>>>, <<8324, 3, <<52>>>>,
       <<8325, 3, <<53>>>>, <<8326, 3, <<54>>>>, <<8327, 3, <<55>>>>, <<8328, 3, <<56>>>>,
       <<8329, 3, <<57>>>>, <<8330, 3, <<43>>>>, <<8331, 3, <<8722>>>>, <<8332, 3, <<61>>>>,
       <<8333, 3, <<40>>>>, <<8334, 3, <<41>>>>, <<8335, 1, <<>>>>, <<8336, 3, <<97>>>>,
       <<8337, 3, <<101>>>>, <<8338, 3, <<111>>>>, <<8339, 3, <<120>>>>, <<8340, 3, <<601>>>>,
       <<8341, 3, <<104>>>>, <<8342, 3, <<107>>>>, <<8343, 3, <<108>>>>, <<8344, 3, <<109>>>>,
       <<8345, 3, <<110>>>>, <<8346, 3, <<112>>>>, <<8347, 3, <<115>>>>, <<8348, 3, <<116>>>>,
       <<8349, 1, <<>>>>, <<8352, 0, <<>>>>, <<8360, 3, <<114, 115>>>>, <<8361, 0, <<>>>>,
       <<8385, 1, <<>>>>, <<8400, 0, <<>>>>, <<8433, 1, <<>>>>, <<8448, 3, <<97, 47, 99>>>>,
       <<8449, 3, <<97, 47, 115>>>>, <<8450, 3, <<99>>>>, <<8451, 3, <<176, 99>>>>,
       <<8452, 0, <<>>>>, <<8453, 3, <<99, 47, 111>>>>, <<8454, 3, <<99, 47, 117>>>>,
       <<8455, 3, <<603>>>>, <<8456, 0, <<>>>>, <<8457, 3, <<176, 102>>>>, <<8458, 3, <<103>>>>,
       <<8459, 3, <<104>>>>, <<8463, 3, <<295>>>>, <<8464, 3, <<105>>>>, <<8466, 3, <<108>>>>,
       <<8468, 0, <<>>>>, <<8469, 3, <<110>>>>, <<8470, 3, <<110, 111>>>>, <<8471, 0, <<>>>>,
       <<8473, 3, <<112>>>>, <<8474, 3, <<113>>>>, <<8475, 3, <<114>>>>, <<8478, 0, <<>>>>,
       <<8480, 3, <<115, 109>>>>, <<8481, 3, <<116, 101, 108>>>>, <<8482, 3, <<116, 109>>>>,
       <<8483, 0, <<>>>>, <<8484, 3, <<122>>>>, <<8485, 0, <<>>>>, <<8486, 3, <<969>>>>,
       <<8487, 0, <<>>>>, <<8488, 3, <<122>>>>, <<8489, 0, <<>>>>, <<8490, 3, <<107>>>>,
       <<8491, 3, <<229>>>>, <<8492, 3, <<98>>>>, <<8493, 3, <<99>>>>, <<8494, 0, <<>>>>,
       <<8495, 3, <<101>>>>, <<8497, 3, <<102>>>>, <<8498, 1, <<>>>>, <<8499, 3, <<109>>>>,
       <<8500, 3, <<111>>>>, <<8501, 3, <<1488>>>>, <<8502, 3, <<1489>>>>, <<8503, 3, <<1490>>>>,
       <<8504, 3, <<1491>>>>, <<8505, 3, <<105>>>>, <<8506, 0, <<>>>>,
       <<8507, 3, <<102, 97, 120>>>>, <<8508, 3, <<960>>>>, <<8509, 3, <<947>>>>,
       <<8511, 3, <<960>>>>, <<8512, 3, <<8721>>>>, <<8513, 0, <<>>>>, <<8517, 3, <<100>>>>,
       <<8519, 3, <<101>>>>, <<8520, 3, <<105>>>>, <<8521, 3, <<106>>>>, <<8522, 0, <<>>>>,
       <<8528, 3, <<49, 8260, 55>>>>, <<8529, 3, <<49, 8260, 57>>>>,
       <<8530, 3, <<49, 8260, 49, 48>>>>, <<8531, 3, <<49, 8260, 51>>>>,
       <<8532, 3, <<50, 8260, 51>>>>, <<8533, 3, <<49, 8260, 53>>>>, <<8534, 3, <<50, 8260, 53>>>>,
       <<8535, 3, <<51, 8260, 53>>>>, <<8536, 3, <<52, 8260, 53>>>>, <<8537, 3, <<49, 8260, 54>>>>,
       <<8538, 3, <<53, 8260, 54>>>>, <<8539, 3, <<49, 8260, 56>>>>, <<8540, 3, <<51, 8260, 56>>>>,
       <<8541, 3, <<53, 8260, 56>>>>, <<8542, 3, <<55, 8260, 56>>>>, <<8543, 3, <<49, 8260>>>>,
       <<8544, 3, <<105>>>>, <<8545, 3, <<105, 105>>>>, <<8546, 3, <<105, 105, 105>>>>,
       <<8547, 3, <<105, 118>>>>, <<8548, 3, <<118>>>>, <<8549, 3, <<118, 105>>>>,
       <<8550, 3, <<118, 105, 105>>>>, <<8551, 3, <<118, 105, 105, 105>>>>,
       <<8552, 3, <<105, 120>>>>, <<8553, 3, <<120>>>>, <<8554, 3, <<120, 105>>>>,
       <<8555, 3, <<120, 105, 105>>>>, <<8556, 3, <<108>>>>, <<8557, 3, <<99>>>>,
       <<8558, 3, <<100>>>>, <<8559, 3, <<109>>>>, <<8560, 3, <<105>>>>, <<8561, 3, <<105, 105>>>>,
       <<8562, 3, <<105, 105, 105>>>>, <<8563, 3, <<105, 118>>>>, <<8564, 3, <<118>>>>,
       <<8565, 3, <<118, 105>>>>, <<8566, 3, <<118, 105, 105>>>>,
       <<8567, 3, <<118, 105, 105, 105>>>>, <<8568, 3, <<105, 120>>>>, <<8569, 3, <<120>>>>,
       <<8570, 3, <<120, 105>>>>, <<8571, 3, <<120, 105, 105>>>>, <<8572, 3, <<108>>>>,
       <<8573, 3, <<99>>>>, <<8574, 3, <<100>>>>, <<8575, 3, <<109>>>>, <<8576, 0, <<>>>>,
       <<8579, 1, <<>>>>, <<8580, 0, <<>>>>, <<8585, 3, <<48, 8260, 51>>>>, <<8586, 0, <<>>>>,
       <<8588, 1, <<>>>>, <<8592, 0, <<>>>>, <<8748, 3, <<8747, 8747>>>>,
       <<8749, 3, <<8747, 8747, 8747>>>>, <<8750, 0, <<>>>>, <<8751, 3, <<8750, 8750>>>>,
       <<8752, 3, <<8750, 8750, 8750>>>>, <<8753, 0, <<>>>>, <<9001, 3, <<12296>>>>,
       <<9002, 3, <<12297>>>>, <<9003, 0, <<>>>>, <<9255, 1, <<>>>>, <<9280, 0, <<>>>>,
       <<9291, 1, <<>>>>, <<9312, 3, <<49>>>>, <<9313, 3, <<50>>>>, <<9314, 3, <<51>>>>,
       <<9315, 3, <<52>>>>, <<9316, 3, <<53>>>>, <<9317, 3, <<54>>>>, <<9318, 3, <<55>>>>,
       <<9319, 3, <<56>>>>, <<9320, 3, <<57>>>>, <<9321, 3, <<49, 48>>>>, <<9322, 3, <<49, 49>>>>,
       <<9323, 3, <<49, 50>>>>, <<9324, 3, <<49, 51>>>>, <<9325, 3, <<49, 52>>>>,
       <<9326, 3, <<49, 53>>>>, <<9327, 3, <<49, 54>>>>, <<9328, 3, <<49, 55>>>>,
       <<9329, 3, <<49, 56>>>>, <<9330, 3, <<49, 57>>>>, <<9331, 3, <<50, 48>>>>,
       <<9332, 3, <<40, 49, 41>>>>, <<9333, 3, <<40, 50, 41>>>>, <<9334, 3, <<40, 51, 41>>>>,
       <<9335, 3, <<40, 52, 41>>>>, <<9336, 3, <<40, 53, 41>>>>, <<9337, 3, <<40, 54, 41>>>>,
       <<9338, 3, <<40, 55, 41>>>>, <<9339, 3, <<40, 56, 41>>>>, <<9340, 3, <<40, 57, 41>>>>,
       <<9341, 3, <<40, 49, 48, 41>>>>, <<9342, 3, <<40, 49, 49, 41>>>>,
       <<9343, 3, <<40, 49, 50, 41>>>>, <<9344, 3, <<40, 49, 51, 41>>>>,
       <<9345, 3, <<40, 49, 52, 41>>>>, <<9346, 3, <<40, 49, 53, 41>>>>,
       <<9347, 3, <<40, 49, 54, 41>>>>, <<9348, 3, <<40, 49, 55, 41>>>>,
       <<9349, 3, <<40, 49, 56, 41>>>>, <<9350, 3, <<40, 49, 57, 41>>>>,
       <<9351, 3, <<40, 50, 48, 41>>>>, <<9352, 1, <<>>>>, <<9372, 3, <<40, 97, 41>>>>,
       <<9373, 3, <<40, 98, 41>>>>, <<9374, 3, <<40, 99, 41>>>>, <<9375, 3, <<40, 100, 41>>>>,
       <<9376, 3, <<40, 101, 41>>>>, <<9377, 3, <<40, 102, 41>>>>, <<9378, 3, <<40, 103, 41>>>>,
       <<9379, 3, <<40, 104, 41>>>>, <<9380, 3, <<40, 105, 41>>>>, <<9381, 3, <<40, 106, 41>>>>,
       <<9382, 3, <<40, 107, 41>>>>, <<9383, 3, <<40, 108, 41>>>>, <<9384, 3, <<40, 109, 41>>>>,
       <<9385, 3, <<40, 110, 41>>>>, <<9386, 3, <<40, 111, 41>>>>, <<9387, 3, <<40, 112, 41>>>>,
       <<9388, 3, <<40, 113, 41>>>>, <<9389, 3, <<40, 114, 41>>>>, <<9390, 3, <<40, 115, 41>>>>,
       <<9391, 3, <<40, 116, 41>>>>, <<9392, 3, <<40, 117, 41>>>>, <<9393, 3, <<40, 118, 41>>>>,
       <<9394, 3, <<40, 119, 41>>>>, <<9395, 3, <<40, 120, 41>>>>, <<9396, 3, <<40, 121, 41>>>>,
       <<9397, 3, <<40, 122, 41>>>>, <<9398, 3, <<97>>>>, <<9399, 3, <<98>>>>, <<9400, 3, <<99>>>>,
       <<9401, 3, <<100>>>>, <<9402, 3, <<101>>>>, <<9403, 3, <<102>>>>, <<9404, 3, <<103>>>>,
       <<9405, 3, <<104>>>>, <<9406, 3, <<105>>>>, <<9407, 3, <<106>>>>, <<9408, 3, <<107>>>>,
       <<9409, 3, <<108>>>>, <<9410, 3, <<109>>>>, <<9411, 3, <<110>>>>, <<9412, 3, <<111>>>>,
       <<9413, 3, <<112>>>>, <<9414, 3, <<113>>>>, <<9415, 3, <<114>>>>, <<9416, 3, <<115>>>>,
       <<9417, 3, <<116>>>>, <<9418, 3, <<117>>>>, <<9419, 3, <<118>>>>, <<9420, 3, <<119>>>>,
       <<9421, 3, <<120>>>>, <<9422, 3, <<121>>>>, <<9423, 3, <<122>>>>, <<9424, 3, <<97>>>>,
       <<9425, 3, <<98>>>>, <<9426, 3, <<99>>>>, <<9427, 3, <<100>>>>, <<9428, 3, <<101>>>>,
       <<9429, 3, <<102>>>>, <<9430, 3, <<103>>>>, <<9431, 3, <<104>>>>, <<9432, 3, <<105>>>>,
       <<9433, 3, <<106>>>>, <<9434, 3, <<107>>>>, <<9435, 3, <<108>>>>, <<9436, 3, <<109>>>>,
       <<9437, 3, <<110>>>>, <<9438, 3, <<111>>>>, <<9439, 3, <<112>>>>, <<9440, 3, <<113>>>>,
       <<9441, 3, <<114>>>>, <<9442, 3, <<115>>>>, <<9443, 3, <<116>>>>, <<9444, 3, <<117>>>>,
       <<9445, 3, <<118>>>>, <<9446, 3, <<119>>>>, <<9447, 3, <<120>>>>, <<9448, 3, <<121>>>>,
       <<9449, 3, <<122>>>>, <<9450, 3, <<48>>>>, <<9451, 0, <<>>>>,
       <<10764, 3, <<8747, 8747, 8747, 8747>>>>, <<10765, 0, <<>>>>, <<10868, 3, <<58, 58, 61>>>>,
       <<10869, 3, <<61, 61>>>>, <<10870, 3, <<61, 61, 61>>>>, <<10871, 0, <<>>>>,
       <<10972, 3, <<10973, 824>>>>, <<10973, 0, <<>>>>, <<11124, 1, <<>>>>, <<11126, 0, <<>>>>,
       <<11158, 1, <<>>>>, <<11159, 0, <<>>>>, <<11264, 3, <<11312>>>>, <<11265, 3, <<11313>>>>,
       <<11266, 3, <<11314>>>>, <<11267, 3, <<11315>>>>, <<11268, 3, <<11316>>>>,
       <<11269, 3, <<11317>>>>, <<11270, 3, <<11318>>>>, <<11271, 3, <<11319>>>>,
       <<11272, 3, <<11320>>>>, <<11273, 3, <<11321>>>>, <<11274, 3, <<11322>>>>,
       <<11275, 3, <<11323>>>>, <<11276, 3, <<11324>>>>, <<11277, 3, <<11325>>>>,
       <<11278, 3, <<11326>>>>, <<11279, 3, <<11327>>>>, <<11280, 3, <<11328>>>>,
       <<11281, 3, <<11329>>>>, <<11282, 3, <<11330>>>>, <<11283, 3, <<11331>>>>,
       <<11284, 3, <<11332>>>>, <<11285, 3, <<11333>>>>, <<11286, 3, <<11334>>>>,
       <<11287, 3, <<11335>>>>, <<11288, 3, <<11336>>>>, <<11289, 3, <<11337>>>>,
       <<11290, 3, <<11338>>>>, <<11291, 3, <<11339>>>>, <<11292, 3, <<11340>>>>,
       <<11293, 3, <<11341>>>>, <<11294, 3, <<11342>>>>, <<11295, 3, <<11343>>>>,
       <<11296, 3, <<11344>>>>, <<11297, 3, <<11345>>>>, <<11298, 3, <<11346>>>>,
       <<11299, 3, <<11347>>>>, <<11300, 3, <<11348>>>>, <<11301, 3, <<11349>>>>,
       <<11302, 3, <<11350>>>>, <<11303, 3, <<11351>>>>, <<11304, 3, <<11352>>>>,
       <<11305, 3, <<11353>>>>, <<11306, 3, <<11354>>>>, <<11307, 3, <<11355>>>>,
       <<11308, 3, <<11356>>>>, <<11309, 3, <<11357>>>>, <<11310, 3, <<11358>>>>,
       <<11311, 3, <<11359>>>>, <<11312, 0, <<>>>>, <<11360, 3, <<11361>>>>, <<11361, 0, <<>>>>,
       <<11362, 3, <<619>>>>, <<11363, 3, <<7549>>>>, <<11364, 3, <<637>>>>, <<11365, 0, <<>>>>,
       <<11367, 3, <<11368>>>>, <<11368, 0, <<>>>>, <<11369, 3, <<11370>>>>, <<11370, 0, <<>>>>,
       <<11371, 3, <<11372>>>>, <<11372, 0, <<>>>>, <<11373, 3, <<593>>>>, <<11374, 3, <<625>>>>,
       <<11375, 3, <<592>>>>, <<11376, 3, <<594>>>>, <<11377, 0, <<>>>>, <<11378, 3, <<11379>>>>,
       <<11379, 0, <<>>>>, <<11381, 3, <<11382>>>>, <<11382, 0, <<>>>>, <<11388, 3, <<106>>>>,
       <<11389, 3, <<118>>>>, <<11390, 3, <<575>>>>, <<11391, 3, <<576>>>>,
       <<11392, 3, <<11393>>>>, <<11393, 0, <<>>>>, <<11394, 3, <<11395>>>>, <<11395, 0, <<>>>>,
       <<11396, 3, <<11397>>>>, <<11397, 0, <<>>>>, <<11398, 3, <<11399>>>>, <<11399, 0, <<>>>>,
       <<11400, 3, <<11401>>>>, <<11401, 0, <<>>>>, <<11402, 3, <<11403>>>>, <<11403, 0, <<>>>>,
       <<11404, 3, <<11405>>>>, <<11405, 0, <<>>>>, <<11406, 3, <<11407>>>>, <<11407, 0, <<>>>>,
       <<11408, 3, <<11409>>>>, <<11409, 0, <<>>>>, <<11410, 3, <<11411>>>>, <<11411, 0, <<>>>>,
       <<11412, 3, <<11413>>>>, <<11413, 0, <<>>>>, <<11414, 3, <<11415>>>>, <<11415, 0, <<>>>>,
       <<11416, 3, <<11417>>>>, <<11417, 0, <<>>>>, <<11418, 3, <<11419>>>>, <<11419, 0, <<>>>>,
       <<11420, 3, <<11421>>>>, <<11421, 0, <<>>>>, <<11422, 3, <<11423>>>>, <<11423, 0, <<>>>>,
       <<11424, 3, <<11425>>>>, <<11425, 0, <<>>>>, <<11426, 3, <<11427>>>>, <<11427, 0, <<>>>>,
       <<11428, 3, <<11429>>>>, <<11429, 0, <<>>>>, <<11430, 3, <<11431>>>>, <<11431, 0, <<>>>>,
       <<11432, 3, <<11433>>>>, <<11433, 0, <<>>>>, <<11434, 3, <<11435>>>>, <<11435, 0, <<>>>>,
       <<11436, 3, <<11437>>>>, <<11437, 0, <<>>>>, <<11438, 3, <<11439>>>>, <<11439, 0, <<>>>>,
       <<11440, 3, <<11441>>>>, <<11441, 0, <<>>>>, <<11442, 3, <<11443>>>>, <<11443, 0, <<>>>>,
       <<11444, 3, <<11445>>>>, <<11445, 0, <<>>>>, <<11446, 3, <<11447>>>>, <<11447, 0, <<>>>>,
       <<11448, 3, <<11449>>>>, <<11449, 0, <<>>>>, <<11450, 3, <<11451>>>>, <<11451, 0, <<>>>>,
       <<11452, 3, <<11453>>>>, <<11453, 0, <<>>>>, <<11454, 3, <<11455>>>>, <<11455, 0, <<>>>>,
       <<11456, 3, <<11457>>>>, <<11457, 0, <<>>>>, <<11458, 3, <<11459>>>>, <<11459, 0, <<>>>>,
       <<11460, 3, <<11461>>>>, <<11461, 0, <<>>>>, <<11462, 3, <<11463>>>>, <<11463, 0, <<>>>>,
       <<11464, 3, <<11465>>>>, <<11465, 0, <<>>>>, <<11466, 3, <<11467>>>>, <<11467, 0, <<>>>>,
       <<11468, 3, <<11469>>>>, <<11469, 0, <<>>>>, <<11470, 3, <<11471>>>>, <<11471, 0, <<>>>>,
       <<11472, 3, <<11473>>>>, <<11473, 0, <<>>>>, <<11474, 3, <<11475>>>>, <<11475, 0, <<>>>>,
       <<11476, 3, <<11477>>>>, <<11477, 0, <<>>>>, <<11478, 3, <<11479>>>>, <<11479, 0, <<>>>>,
       <<11480, 3, <<11481>>>>, <<11481, 0, <<>>>>, <<11482, 3, <<11483>>>>, <<11483, 0, <<>>>>,
       <<11484, 3, <<11485>>>>, <<11485, 0, <<>>>>, <<11486, 3, <<11487>>>>, <<11487, 0, <<>>>>,
       <<11488, 3, <<11489>>>>, <<11489, 0, <<>>>>, <<11490, 3, <<11491>>>>, <<11491, 0, <<>>>>,
       <<11499, 3, <<11500>>>>, <<11500, 0, <<>>>>, <<11501, 3, <<11502>>>>, <<11502, 0, <<>>>>,
       <<11506, 3, <<11507>>>>, <<11507, 0, <<>>>>, <<11508, 1, <<>>>>, <<11513, 0, <<>>>>,
       <<11558, 1, <<>>>>, <<11559, 0, <<>>>>, <<11560, 1, <<>>>>, <<11565, 0, <<>>>>,
       <<11566, 1, <<>>>>, <<11568, 0, <<>>>>, <<11624, 1, <<>>>>, <<11631, 3, <<11617>>>>,
       <<11632, 0, <<>>>>, <<11633, 1, <<>>>>, <<11647, 0, <<>>>>, <<11671, 1, <<>>>>,
       <<11680, 0, <<>>>>, <<11687, 1, <<>>>>, <<11688, 0, <<>>>>, <<11695, 1, <<>>>>,
       <<11696, 0, <<>>>>, <<11703, 1, <<>>>>, <<11704, 0, <<>>>>, <<11711, 1, <<>>>>,
       <<11712, 0, <<>>>>, <<11719, 1, <<>>>>, <<11720, 0, <<>>>>, <<11727, 1, <<>>>>,
       <<11728, 0, <<>>>>, <<11735, 1, <<>>>>, <<11736, 0, <<>>>>, <<11743, 1, <<>>>>,
       <<11744, 0, <<>>>>, <<11870, 1, <<>>>>, <<11904, 0, <<>>>>, <<11930, 1, <<>>>>,
       <<11931, 0, <<>>>>, <<11935, 3, <<27597>>>>, <<11936, 0, <<>>>>, <<12019, 3, <<40863>>>>,
       <<12020, 1, <<>>>>, <<12032, 3, <<19968>>>>, <<12033, 3, <<20008>>>>,
       <<12034, 3, <<20022>>>>, <<12035, 3, <<20031>>>>, <<12036, 3, <<20057>>>>,
       <<12037, 3, <<20101>>>>, <<12038, 3, <<20108>>>>, <<12039, 3, <<20128>>>>,
       <<12040, 3, <<20154>>>>, <<12041, 3, <<20799>>>>, <<12042, 3, <<20837>>>>,
       <<12043, 3, <<20843>>>>, <<12044, 3, <<20866>>>>, <<12045, 3, <<20886>>>>,
       <<12046, 3, <<20907>>>>, <<12047, 3, <<20960>>>>, <<12048, 3, <<20981>>>>,
       <<12049, 3, <<20992>>>>, <<12050, 3, <<21147>>>>, <<12051, 3, <<21241>>>>,
       <<12052, 3, <<21269>>>>, <<12053, 3, <<21274>>>>, <<12054, 3, <<21304>>>>,
       <<12055, 3, <<21313>>>>, <<12056, 3, <<21340>>>>, <<12057, 3, <<21353>>>>,
       <<12058, 3, <<21378>>>>, <<12059, 3, <<21430>>>>, <<12060, 3, <<21448>>>>,
       <<12061, 3, <<21475>>>>, <<12062, 3, <<22231>>>>, <<12063, 3, <<22303>>>>,
       <<12064, 3, <<22763>>>>, <<12065, 3, <<22786>>>>, <<12066, 3, <<22794>>>>,
       <<12067, 3, <<22805>>>>, <<12068, 3, <<22823>>>>, <<12069, 3, <<22899>>>>,
       <<12070, 3, <<23376>>>>, <<12071, 3, <<23424>>>>, <<12072, 3, <<23544>>>>,
       <<12073, 3, <<23567>>>>, <<12074, 3, <<23586>>>>, <<12075, 3, <<23608>>>>,
       <<12076, 3, <<23662>>>>, <<12077, 3, <<23665>>>>, <<12078, 3, <<24027>>>>,
       <<12079, 3, <<24037>>>>, <<12080, 3, <<24049>>>>, <<12081, 3, <<24062>>>>,
       <<12082, 3, <<24178>>>>, <<12083, 3, <<24186>>>>, <<12084, 3, <<24191>>>>,
       <<12085, 3, <<24308>>>>, <<12086, 3, <<24318>>>>, <<12087, 3, <<24331>>>>,
       <<12088, 3, <<24339>>>>, <<12089, 3, <<24400>>>>, <<12090, 3, <<24417>>>>,
       <<12091, 3, <<24435>>>>, <<12092, 3, <<24515>>>>, <<12093, 3, <<25096>>>>,
       <<12094, 3, <<25142>>>>, <<12095, 3, <<25163>>>>, <<12096, 3, <<25903>>>>,
       <<12097, 3, <<25908>>>>, <<12098, 3, <<25991>>>>, <<12099, 3, <<26007>>>>,
       <<12100, 3, <<26020>>>>, <<12101, 3, <<26041>>>>, <<12102, 3, <<26080>>>>,
       <<12103, 3, <<26085>>>>, <<12104, 3, <<26352>>>>, <<12105, 3, <<26376>>>>,
       <<12106, 3, <<26408>>>>, <<12107, 3, <<27424>>>>, <<12108, 3, <<27490>>>>,
       <<12109, 3, <<27513>>>>, <<12110, 3, <<27571>>>>, <<12111, 3, <<27595>>>>,
       <<12112, 3, <<27604>>>>, <<12113, 3, <<27611>>>>, <<12114, 3, <<27663>>>>,
       <<12115, 3, <<27668>>>>, <<12116, 3, <<27700>>>>, <<12117, 3, <<28779>>>>,
       <<12118, 3, <<29226>>>>, <<12119, 3, <<29238>>>>, <<12120, 3, <<29243>>>>,
       <<12121, 3, <<29247>>>>, <<12122, 3, <<29255>>>>, <<12123, 3, <<29273>>>>,
       <<12124, 3, <<29275>>>>, <<12125, 3, <<29356>>>>, <<12126, 3, <<29572>>>>,
       <<12127, 3, <<29577>>>>, <<12128, 3, <<29916>>>>, <<12129, 3, <<29926>>>>,
       <<12130, 3, <<29976>>>>, <<12131, 3, <<29983>>>>, <<12132, 3, <<29992>>>>,
       <<12133, 3, <<30000>>>>, <<12134, 3, <<30091>>>>, <<12135, 3, <<30098>>>>,
       <<12136, 3, <<30326>>>>, <<12137, 3, <<30333>>>>, <<12138, 3, <<30382>>>>,
       <<12139, 3, <<30399>>>>, <<12140, 3, <<30446>>>>, <<12141, 3, <<30683>>>>,
       <<12142, 3, <<30690>>>>, <<12143, 3, <<30707>>>>, <<12144, 3, <<31034>>>>,
       <<12145, 3, <<31160>>>>, <<12146, 3, <<31166>>>>, <<12147, 3, <<31348>>>>,
       <<12148, 3, <<31435>>>>, <<12149, 3, <<31481>>>>, <<12150, 3, <<31859>>>>,
       <<12151, 3, <<31992>>>>, <<12152, 3, <<32566>>>>, <<12153, 3, <<32593>>>>,
       <<12154, 3, <<32650>>>>, <<12155, 3, <<32701>>>>, <<12156, 3, <<32769>>>>,
       <<12157, 3, <<32780>>>>, <<12158, 3, <<32786>>>>, <<12159, 3, <<32819>>>>,
       <<12160, 3, <<32895>>>>, <<12161, 3, <<32905>>>>, <<12162, 3, <<33251>>>>,
       <<12163, 3, <<33258>>>>, <<12164, 3, <<33267>>>>, <<12165, 3, <<33276>>>>,
       <<12166, 3, <<33292>>>>, <<12167, 3, <<33307>>>>, <<12168, 3, <<33311>>>>,
       <<12169, 3, <<33390>>>>, <<12170, 3, <<33394>>>>, <<12171, 3, <<33400>>>>,
       <<12172, 3, <<34381>>>>, <<12173, 3, <<34411>>>>, <<12174, 3, <<34880>>>>,
       <<12175, 3, <<34892>>>>, <<12176, 3, <<34915>>>>, <<12177, 3, <<35198>>>>,
       <<12178, 3, <<35211>>>>, <<12179, 3, <<35282>>>>, <<12180, 3, <<35328>>>>,
       <<12181, 3, <<35895>>>>, <<12182, 3, <<35910>>>>, <<12183, 3, <<35925>>>>,
       <<12184, 3, <<35960>>>>, <<12185, 3, <<35997>>>>, <<12186, 3, <<36196>>>>,
       <<12187, 3, <<36208>>>>, <<12188, 3, <<36275>>>>, <<12189, 3, <<36523>>>>,
       <<12190, 3, <<36554>>>>, <<12191, 3, <<36763>>>>, <<12192, 3, <<36784>>>>,
       <<12193, 3, <<36789>>>>, <<12194, 3, <<37009>>>>, <<12195, 3, <<37193>>>>,
       <<12196, 3, <<37318>>>>, <<12197, 3, <<37324>>>>, <<12198, 3, <<37329>>>>,
       <<12199, 3, <<38263>>>>, <<12200, 3, <<38272>>>>, <<12201, 3, <<38428>>>>,
       <<12202, 3, <<38582>>>>, <<12203, 3, <<38585>>>>, <<12204, 3, <<38632>>>>,
       <<12205, 3, <<38737>>>>, <<12206, 3, <<38750>>>>, <<12207, 3, <<38754>>>>,
       <<12208, 3, <<38761>>>>, <<12209, 3, <<38859>>>>, <<12210, 3, <<38893>>>>,
       <<12211, 3, <<38899>>>>, <<12212, 3, <<38913>>>>, <<12213, 3, <<39080>>>>,
       <<12214, 3, <<39131>>>>, <<12215, 3, <<39135>>>>, <<12216, 3, <<39318>>>>,
       <<12217, 3, <<39321>>>>, <<12218, 3, <<39340>>>>, <<12219, 3, <<39592>>>>,
       <<12220, 3, <<39640>>>>, <<12221, 3, <<39647>>>>, <<12222, 3, <<39717>>>>,
       <<12223, 3, <<39727>>>>, <<12224, 3, <<39730>>>>, <<12225, 3, <<39740>>>>,
       <<12226, 3, <<39770>>>>, <<12227, 3, <<40165>>>>, <<12228, 3, <<40565>>>>,
       <<12229, 3, <<40575>>>>, <<12230, 3, <<40613>>>>, <<12231, 3, <<40635>>>>,
       <<12232, 3, <<40643>>>>, <<12233, 3, <<40653>>>>, <<12234, 3, <<40657>>>>,
       <<12235, 3, <<40697>>>>, <<12236, 3, <<40701>>>>, <<12237, 3, <<40718>>>>,
       <<12238, 3, <<40723>>>>, <<12239, 3, <<40736>>>>, <<12240, 3, <<40763>>>>,
       <<12241, 3, <<40778>>>>, <<12242, 3, <<40786>>>>, <<12243, 3, <<40845>>>>,
       <<12244, 3, <<40860>>>>, <<12245, 3, <<40864>>>>, <<12246, 1, <<>>>>, <<12288, 3, <<32>>>>,
       <<12289, 0, <<>>>>, <<12290, 3, <<46>>>>, <<12291, 0, <<>>>>, <<12342, 3, <<12306>>>>,
       <<12343, 0, <<>>>>, <<12344, 3, <<21313>>>>, <<12345, 3, <<21316>>>>,
       <<12346, 3, <<21317>>>>, <<12347, 0, <<>>>>, <<12352, 1, <<>>>>, <<12353, 0, <<>>>>,
       <<12439, 1, <<>>>>, <<12441, 0, <<>>>>, <<12443, 3, <<32, 12441>>>>,
       <<12444, 3, <<32, 12442>>>>, <<12445, 0, <<>>>>, <<12447, 3, <<12424, 12426>>>>,
       <<12448, 0, <<>>>>, <<12543, 3, <<12467, 12488>>>>, <<12544, 1, <<>>>>, <<12549, 0, <<>>>>,
       <<12592, 1, <<>>>>, <<12593, 3, <<4352>>>>, <<12594, 3, <<4353>>>>, <<12595, 3, <<4522>>>>,
       <<12596, 3, <<4354>>>>, <<12597, 3, <<4524>>>>, <<12598, 3, <<4525>>>>,
       <<12599, 3, <<4355>>>>, <<12600, 3, <<4356>>>>, <<12601, 3, <<4357>>>>,
       <<12602, 3, <<4528>>>>, <<12603, 3, <<4529>>>>, <<12604, 3, <<4530>>>>,
       <<12605, 3, <<4531>>>>, <<12606, 3, <<4532>>>>, <<12607, 3, <<4533>>>>,
       <<12608, 3, <<4378>>>>, <<12609, 3, <<4358>>>>, <<12610, 3, <<4359>>>>,
       <<12611, 3, <<4360>>>>, <<12612, 3, <<4385>>>>, <<12613, 3, <<4361>>>>,
       <<12614, 3, <<4362>>>>, <<12615, 3, <<4363>>>>, <<12616, 3, <<4364>>>>,
       <<12617, 3, <<4365>>>>, <<12618, 3, <<4366>>>>, <<12619, 3, <<4367>>>>,
       <<12620, 3, <<4368>>>>, <<12621, 3, <<4369>>>>, <<12622, 3, <<4370>>>>,
       <<12623, 3, <<4449>>>>, <<12624, 3, <<4450>>>>, <<12625, 3, <<4451>>>>,
       <<12626, 3, <<4452>>>>, <<12627, 3, <<4453>>>>, <<12628, 3, <<4454>>>>,
       <<12629, 3, <<4455>>>>, <<12630, 3, <<4456>>>>, <<12631, 3, <<4457>>>>,
       <<12632, 3, <<4458>>>>, <<12633, 3, <<4459>>>>, <<12634, 3, <<4460>>>>,
       <<12635, 3, <<4461>>>>, <<12636, 3, <<4462>>>>, <<12637, 3, <<4463>>>>,
       <<12638, 3, <<4464>>>>, <<12639, 3, <<4465>>>>, <<12640, 3, <<4466>>>>,
       <<12641, 3, <<4467>>>>, <<12642, 3, <<4468>>>>, <<12643, 3, <<4469>>>>, <<12644, 1, <<>>>>,
       <<12645, 3, <<4372>>>>, <<12646, 3, <<4373>>>>, <<12647, 3, <<4551>>>>,
       <<12648, 3, <<4552>>>>, <<12649, 3, <<4556>>>>, <<12650, 3, <<4558>>>>,
       <<12651, 3, <<4563>>>>, <<12652, 3, <<4567>>>>, <<12653, 3, <<4569>>>>,
       <<12654, 3, <<4380>>>>, <<12655, 3, <<4573>>>>, <<12656, 3, <<4575>>>>,
       <<12657, 3, <<4381>>>>, <<12658, 3, <<4382>>>>, <<12659, 3, <<4384>>>>,
       <<12660, 3, <<4386>>>>, <<12661, 3, <<4387>>>>, <<12662, 3, <<4391>>>>,
       <<12663, 3, <<4393>>>>, <<12664, 3, <<4395>>>>, <<12665, 3, <<4396>>>>,
       <<12666, 3, <<4397>>>>, <<12667, 3, <<4398>>>>, <<12668, 3, <<4399>>>>,
       <<12669, 3, <<4402>>>>, <<12670, 3, <<4406>>>>, <<12671, 3, <<4416>>>>,
       <<12672, 3, <<4423>>>>, <<12673, 3, <<4428>>>>, <<12674, 3, <<4593>>>>,
       <<12675, 3, <<4594>>>>, <<12676, 3, <<4439>>>>, <<12677, 3, <<4440>>>>,
       <<12678, 3, <<4441>>>>, <<12679, 3, <<4484>>>>, <<12680, 3, <<4485>>>>,
       <<12681, 3, <<4488>>>>, <<12682, 3, <<4497>>>>, <<12683, 3, <<4498>>>>,
       <<12684, 3, <<4500>>>>, <<12685, 3, <<4510>>>>, <<12686, 3, <<4513>>>>, <<12687, 1, <<>>>>,
       <<12688, 0, <<>>>>, <<12690, 3, <<19968>>>>, <<12691, 3, <<20108>>>>,
       <<12692, 3, <<19977>>>>, <<12693, 3, <<22235>>>>, <<12694, 3, <<19978>>>>,
       <<12695, 3, <<20013>>>>, <<12696, 3, <<19979>>>>, <<12697, 3, <<30002>>>>,
       <<12698, 3, <<20057>>>>, <<12699, 3, <<19993>>>>, <<12700, 3, <<19969>>>>,
       <<12701, 3, <<22825>>>>, <<12702, 3, <<22320>>>>, <<12703, 3, <<20154>>>>,
       <<12704, 0, <<>>>>, <<12772, 1, <<>>>>, <<12784, 0, <<>>>>, <<12800, 3, <<40, 4352, 41>>>>,
       <<12801, 3, <<40, 4354, 41>>>>, <<12802, 3, <<40, 4355, 41>>>>,
       <<12803, 3, <<40, 4357, 41>>>>, <<12804, 3, <<40, 4358, 41>>>>,
       <<12805, 3, <<40, 4359, 41>>>>, <<12806, 3, <<40, 4361, 41>>>>,
       <<12807, 3, <<40, 4363, 41>>>>, <<12808, 3, <<40, 4364, 41>>>>,
       <<12809, 3, <<40, 4366, 41>>>>, <<12810, 3, <<40, 4367, 41>>>>,
       <<12811, 3, <<40, 4368, 41>>>>, <<12812, 3, <<40, 4369, 41>>>>,
       <<12813, 3, <<40, 4370, 41>>>>, <<12814, 3, <<40, 44032, 41>>>>,
       <<12815, 3, <<40, 45208, 41>>>>, <<12816, 3, <<40, 45796, 41>>>>,
       <<12817, 3, <<40, 46972, 41>>>>, <<12818, 3, <<40, 47560, 41>>>>,
       <<12819, 3, <<40, 48148, 41>>>>, <<12820, 3, <<40, 49324, 41>>>>,
       <<12821, 3, <<40, 50500, 41>>>>, <<12822, 3, <<40, 51088, 41>>>>,
       <<12823, 3, <<40, 52264, 41>>>>, <<12824, 3, <<40, 52852, 41>>>>,
       <<12825, 3, <<40, 53440, 41>>>>, <<12826, 3, <<40, 54028, 41>>>>,
       <<12827, 3, <<40, 54616, 41>>>>, <<12828, 3, <<40, 51452, 41>>>>,
       <<12829, 3, <<40, 50724, 51204, 41>>>>, <<12830, 3, <<40, 50724, 54980, 41>>>>,
       <<12831, 1, <<>>>>, <<12832, 3, <<40, 19968, 41>>>>, <<12833, 3, <<40, 20108, 41>>>>,
       <<12834, 3, <<40, 19977, 41>>>>, <<12835, 3, <<40, 22235, 41>>>>,
       <<12836, 3, <<40, 20116, 41>>>>, <<12837, 3, <<40, 20845, 41>>>>,
       <<12838, 3, <<40, 19971, 41>>>>, <<12839, 3, <<40, 20843, 41>>>>,
       <<12840, 3, <<40, 20061, 41>>>>, <<12841, 3, <<40, 21313, 41>>>>,
       <<12842, 3, <<40, 26376, 41>>>>, <<12843, 3, <<40, 28779, 41>>>>,
       <<12844, 3, <<40, 27700, 41>>>>, <<12845, 3, <<40, 26408, 41>>>>,
       <<12846, 3, <<40, 37329, 41>>>>, <<12847, 3, <<40, 22303, 41>>>>,
       <<12848, 3, <<40, 26085, 41>>>>, <<12849, 3, <<40, 26666, 41>>>>,
       <<12850, 3, <<40, 26377, 41>>>>, <<12851, 3, <<40, 31038, 41>>>>,
       <<12852, 3, <<40, 21517, 41>>>>, <<12853, 3, <<40, 29305, 41>>>>,
       <<12854, 3, <<40, 36001, 41>>>>, <<12855, 3, <<40, 31069, 41>>>>,
       <<12856, 3, <<40, 21172, 41>>>>, <<12857, 3, <<40, 20195, 41>>>>,
       <<12858, 3, <<40, 21628, 41>>>>, <<12859, 3, <<40, 23398, 41>>>>,
       <<12860, 3, <<40, 30435, 41>>>>, <<12861, 3, <<40, 20225, 41>>>>,
       <<12862, 3, <<40, 36039, 41>>>>, <<12863, 3, <<40, 21332, 41>>>>,
       <<12864, 3, <<40, 31085, 41>>>>, <<12865, 3, <<40, 20241, 41>>>>,
       <<12866, 3, <<40, 33258, 41>>>>, <<12867, 3, <<40, 33267, 41>>>>, <<12868, 3, <<21839>>>>,
       <<12869, 3, <<24188>>>>, <<12870, 3, <<25991>>>>, <<12871, 3, <<31631>>>>,
       <<12872, 0, <<>>>>, <<12880, 3, <<112, 116, 101>>>>, <<12881, 3, <<50, 49>>>>,
       <<12882, 3, <<50, 50>>>>, <<12883, 3, <<50, 51>>>>, <<12884, 3, <<50, 52>>>>,
       <<12885, 3, <<50, 53>>>>, <<12886, 3, <<50, 54>>>>, <<12887, 3, <<50, 55>>>>,
       <<12888, 3, <<50, 56>>>>, <<12889, 3, <<50, 57>>>>, <<12890, 3, <<51, 48>>>>,
       <<12891, 3, <<51, 49>>>>, <<12892, 3, <<51, 50>>>>, <<12893, 3, <<51, 51>>>>,
       <<12894, 3, <<51, 52>>>>, <<12895, 3, <<51, 53>>>>, <<12896, 3, <<4352>>>>,
       <<12897, 3, <<4354>>>>, <<12898, 3, <<4355>>>>, <<12899, 3, <<4357>>>>,
       <<12900, 3, <<4358>>>>, <<12901, 3, <<4359>>>>, <<12902, 3, <<4361>>>>,
       <<12903, 3, <<4363>>>>, <<12904, 3, <<4364>>>>, <<12905, 3, <<4366>>>>,
       <<12906, 3, <<4367>>>>, <<12907, 3, <<4368>>>>, <<12908, 3, <<4369>>>>,
       <<12909, 3, <<4370>>>>, <<12910, 3, <<44032>>>>, <<12911, 3, <<45208>>>>,
       <<12912, 3, <<45796>>>>, <<12913, 3, <<46972>>>>, <<12914, 3, <<47560>>>>,
       <<12915, 3, <<48148>>>>, <<12916, 3, <<49324>>>>, <<12917, 3, <<50500>>>>,
       <<12918, 3, <<51088>>>>, <<12919, 3, <<52264>>>>, <<12920, 3, <<52852>>>>,
       <<12921, 3, <<53440>>>>, <<12922, 3, <<54028>>>>, <<12923, 3, <<54616>>>>,
       <<12924, 3, <<52280, 44256>>>>, <<12925, 3, <<51452, 51032>>>>, <<12926, 3, <<50864>>>>,
       <<12927, 0, <<>>>>, <<12928, 3, <<19968>>>>, <<12929, 3, <<20108>>>>,
       <<12930, 3, <<19977>>>>, <<12931, 3, <<22235>>>>, <<12932, 3, <<20116>>>>,
       <<12933, 3, <<20845>>>>, <<12934, 3, <<19971>>>>, <<12935, 3, <<20843>>>>,
       <<12936, 3, <<20061>>>>, <<12937, 3, <<21313>>>>, <<12938, 3, <<26376>>>>,
       <<12939, 3, <<28779>>>>, <<12940, 3, <<27700>>>>, <<12941, 3, <<26408>>>>,
       <<12942, 3, <<37329>>>>, <<12943, 3, <<22303>>>>, <<12944, 3, <<26085>>>>,
       <<12945, 3, <<26666>>>>, <<12946, 3, <<26377>>>>, <<12947, 3, <<31038>>>>,
       <<12948, 3, <<21517>>>>, <<12949, 3, <<29305>>>>, <<12950, 3, <<36001>>>>,
       <<12951, 3, <<31069>>>>, <<12952, 3, <<21172>>>>, <<12953, 3, <<31192>>>>,
       <<12954, 3, <<30007>>>>, <<12955, 3, <<22899>>>>, <<12956, 3, <<36969>>>>,
       <<12957, 3, <<20778>>>>, <<12958, 3, <<21360>>>>, <<12959, 3, <<27880>>>>,
       <<12960, 3, <<38917>>>>, <<12961, 3, <<20241>>>>, <<12962, 3, <<20889>>>>,
       <<12963, 3, <<27491>>>>, <<12964, 3, <<19978>>>>, <<12965, 3, <<20013>>>>,
       <<12966, 3, <<19979>>>>, <<12967, 3, <<24038>>>>, <<12968, 3, <<21491>>>>,
       <<12969, 3, <<21307>>>>, <<12970, 3, <<23447>>>>, <<12971, 3, <<23398>>>>,
       <<12972, 3, <<30435>>>>, <<12973, 3, <<20225>>>>, <<12974, 3, <<36039>>>>,
       <<12975, 3, <<21332>>>>, <<12976, 3, <<22812>>>>, <<12977, 3, <<51, 54>>>>,
       <<12978, 3, <<51, 55>>>>, <<12979, 3, <<51, 56>>>>, <<12980, 3, <<51, 57>>>>,
       <<12981, 3, <<52, 48>>>>, <<12982, 3, <<52, 49>>>>, <<12983, 3, <<52, 50>>>>,
       <<12984, 3, <<52, 51>>>>, <<12985, 3, <<52, 52>>>>, <<12986, 3, <<52, 53>>>>,
       <<12987, 3, <<52, 54>>>>, <<12988, 3, <<52, 55>>>>, <<12989, 3, <<52, 56>>>>,
       <<12990, 3, <<52, 57>>>>, <<12991, 3, <<53, 48>>>>, <<12992, 3, <<49, 26376>>>>,
       <<12993, 3, <<50, 26376>>>>, <<12994, 3, <<51, 26376>>>>, <<12995, 3, <<52, 26376>>>>,
       <<12996, 3, <<53, 26376>>>>, <<12997, 3, <<54, 26376>>>>, <<12998, 3, <<55, 26376>>>>,
       <<12999, 3, <<56, 26376>>>>, <<13000, 3, <<57, 26376>>>>, <<13001, 3, <<49, 48, 26376>>>>,
       <<13002, 3, <<49, 49, 26376>>>>, <<13003, 3, <<49, 50, 26376>>>>,
       <<13004, 3, <<104, 103>>>>, <<13005, 3, <<101, 114, 103>>>>, <<13006, 3, <<101, 118>>>>,
       <<13007, 3, <<108, 116, 100>>>>, <<13008, 3, <<12450>>>>, <<13009, 3, <<12452>>>>,
       <<13010, 3, <<12454>>>>, <<13011, 3, <<12456>>>>, <<13012, 3, <<12458>>>>,
       <<13013, 3, <<12459>>>>, <<13014, 3, <<12461>>>>, <<13015, 3, <<12463>>>>,
       <<13016, 3, <<12465>>>>, <<13017, 3, <<12467>>>>, <<13018, 3, <<12469>>>>,
       <<13019, 3, <<12471>>>>, <<13020, 3, <<12473>>>>, <<13021, 3, <<12475>>>>,
       <<13022, 3, <<12477>>>>, <<13023, 3, <<12479>>>>, <<13024, 3, <<12481>>>>,
       <<13025, 3, <<12484>>>>, <<13026, 3, <<12486>>>>, <<13027, 3, <<12488>>>>,
       <<13028, 3, <<12490>>>>, <<13029, 3, <<12491>>>>, <<13030, 3, <<12492>>>>,
       <<13031, 3, <<12493>>>>, <<13032, 3, <<12494>>>>, <<13033, 3, <<12495>>>>,
       <<13034, 3, <<12498>>>>, <<13035, 3, <<12501>>>>, <<13036, 3, <<12504>>>>,
       <<13037, 3, <<12507>>>>, <<13038, 3, <<12510>>>>, <<13039, 3, <<12511>>>>,
       <<13040, 3, <<12512>>>>, <<13041, 3, <<12513>>>>, <<13042, 3, <<12514>>>>,
       <<13043, 3, <<12516>>>>, <<13044, 3, <<12518>>>>, <<13045, 3, <<12520>>>>,
       <<13046, 3, <<12521>>>>, <<13047, 3, <<12522>>>>, <<13048, 3, <<12523>>>>,
       <<13049, 3, <<12524>>>>, <<13050, 3, <<12525>>>>, <<13051, 3, <<12527>>>>,
       <<13052, 3, <<12528>>>>, <<13053, 3, <<12529>>>>, <<13054, 3, <<12530>>>>,
       <<13055, 3, <<20196, 21644>>>>, <<13056, 3, <<12450, 12497, 12540, 12488>>>>,
       <<13057, 3, <<12450, 12523, 12501, 12449>>>>, <<13058, 3, <<12450, 12531, 12506, 12450>>>>,
       <<13059, 3, <<12450, 12540, 12523>>>>, <<13060, 3, <<12452, 12491, 12531, 12464>>>>,
       <<13061, 3, <<12452, 12531, 12481>>>>, <<13062, 3, <<12454, 12457, 12531>>>>,
       <<13063, 3, <<12456, 12473, 12463, 12540, 12489>>>>,
       <<13064, 3, <<12456, 12540, 12459, 12540>>>>, <<13065, 3, <<12458, 12531, 12473>>>>,
       <<13066, 3, <<12458, 12540, 12512>>>>, <<13067, 3, <<12459, 12452, 12522>>>>,
       <<13068, 3, <<12459, 12521, 12483, 12488>>>>, <<13069, 3, <<12459, 12525, 12522, 12540>>>>,
       <<13070, 3, <<12460, 12525, 12531>>>>, <<13071, 3, <<12460, 12531, 12510>>>>,
       <<13072, 3, <<12462, 12460>>>>, <<13073, 3, <<12462, 12491, 12540>>>>,
       <<13074, 3, <<12461, 12517, 12522, 12540>>>>, <<13075, 3, <<12462, 12523, 12480, 12540>>>>,
       <<13076, 3, <<12461, 12525>>>>, <<13077, 3, <<12461, 12525, 12464, 12521, 12512>>>>,
       <<13078, 3, <<12461, 12525, 12513, 12540, 12488, 12523>>>>,
       <<13079, 3, <<12461, 12525, 12527, 12483, 12488>>>>, <<13080, 3, <<12464, 12521, 12512>>>>,
       <<13081, 3, <<12464, 12521, 12512, 12488, 12531>>>>,
       <<13082, 3, <<12463, 12523, 12476, 12452, 12525>>>>,
       <<13083, 3, <<12463, 12525, 12540, 12493>>>>, <<13084, 3, <<12465, 12540, 12473>>>>,
       <<13085, 3, <<12467, 12523, 12490>>>>, <<13086, 3, <<12467, 12540, 12509>>>>,
       <<13087, 3, <<12469, 12452, 12463, 12523>>>>,
       <<13088, 3, <<12469, 12531, 12481, 12540, 12512>>>>,
       <<13089, 3, <<12471, 12522, 12531, 12464>>>>, <<13090, 3, <<12475, 12531, 12481>>>>,
       <<13091, 3, <<12475, 12531, 12488>>>>, <<13092, 3, <<12480, 12540, 12473>>>>,
       <<13093, 3, <<12487, 12471>>>>, <<13094, 3, <<12489, 12523>>>>,
       <<13095, 3, <<12488, 12531>>>>, <<13096, 3, <<12490, 12494>>>>,
       <<13097, 3, <<12494, 12483, 12488>>>>, <<13098, 3, <<12495, 12452, 12484>>>>,
       <<13099, 3, <<12497, 12540, 12475, 12531, 12488>>>>, <<13100, 3, <<12497, 12540, 12484>>>>,
       <<13101, 3, <<12496, 12540, 12524, 12523>>>>,
       <<13102, 3, <<12500, 12450, 12473, 12488, 12523>>>>, <<13103, 3, <<12500, 12463, 12523>>>>,
       <<13104, 3, <<12500, 12467>>>>, <<13105, 3, <<12499, 12523>>>>,
       <<13106, 3, <<12501, 12449, 12521, 12483, 12489>>>>,
       <<13107, 3, <<12501, 12451, 12540, 12488>>>>,
       <<13108, 3, <<12502, 12483, 12471, 12455, 12523>>>>, <<13109, 3, <<12501, 12521, 12531>>>>,
       <<13110, 3, <<12504, 12463, 12479, 12540, 12523>>>>, <<13111, 3, <<12506, 12477>>>>,
       <<13112, 3, <<12506, 12491, 12498>>>>, <<13113, 3, <<12504, 12523, 12484>>>>,
       <<13114, 3, <<12506, 12531, 12473>>>>, <<13115, 3, <<12506, 12540, 12472>>>>,
       <<13116, 3, <<12505, 12540, 12479>>>>, <<13117, 3, <<12509, 12452, 12531, 12488>>>>,
       <<13118, 3, <<12508, 12523, 12488>>>>, <<13119, 3, <<12507, 12531>>>>,
       <<13120, 3, <<12509, 12531, 12489>>>>, <<13121, 3, <<12507, 12540, 12523>>>>,
       <<13122, 3, <<12507, 12540, 12531>>>>, <<13123, 3, <<12510, 12452, 12463, 12525>>>>,
       <<13124, 3, <<12510, 12452, 12523>>>>, <<13125, 3, <<12510, 12483, 12495>>>>,
       <<13126, 3, <<12510, 12523, 12463>>>>, <<13127, 3, <<12510, 12531, 12471, 12519, 12531>>>>,
       <<13128, 3, <<12511, 12463, 12525, 12531>>>>, <<13129, 3, <<12511, 12522>>>>,
       <<13130, 3, <<12511, 12522, 12496, 12540, 12523>>>>, <<13131, 3, <<12513, 12460>>>>,
       <<13132, 3, <<12513, 12460, 12488, 12531>>>>, <<13133, 3, <<12513, 12540, 12488, 12523>>>>,
       <<13134, 3, <<12516, 12540, 12489>>>>, <<13135, 3, <<12516, 12540, 12523>>>>,
       <<13136, 3, <<12518, 12450, 12531>>>>, <<13137, 3, <<12522, 12483, 12488, 12523>>>>,
       <<13138, 3, <<12522, 12521>>>>, <<13139, 3, <<12523, 12500, 12540>>>>,
       <<13140, 3, <<12523, 12540, 12502, 12523>>>>, <<13141, 3, <<12524, 12512>>>>,
       <<13142, 3, <<12524, 12531, 12488, 12466, 12531>>>>, <<13143, 3, <<12527, 12483, 12488>>>>,
       <<13144, 3, <<48, 28857>>>>, <<13145, 3, <<49, 28857>>>>, <<13146, 3, <<50, 28857>>>>,
       <<13147, 3, <<51, 28857>>>>, <<13148, 3, <<52, 28857>>>>, <<13149, 3, <<53, 28857>>>>,
       <<13150, 3, <<54, 28857>>>>, <<13151, 3, <<55, 28857>>>>, <<13152, 3, <<56, 28857>>>>,
       <<13153, 3, <<57, 28857>>>>, <<13154, 3, <<49, 48, 28857>>>>,
       <<13155, 3, <<49, 49, 28857>>>>, <<13156, 3, <<49, 50, 28857>>>>,
       <<13157, 3, <<49, 51, 28857>>>>, <<13158, 3, <<49, 52, 28857>>>>,
       <<13159, 3, <<49, 53, 28857>>>>, <<13160, 3, <<49, 54, 28857>>>>,
       <<13161, 3, <<49, 55, 28857>>>>, <<13162, 3, <<49, 56, 28857>>>>,
       <<13163, 3, <<49, 57, 28857>>>>, <<13164, 3, <<50, 48, 28857>>>>,
       <<13165, 3, <<50, 49, 28857>>>>, <<13166, 3, <<50, 50, 28857>>>>,
       <<13167, 3, <<50, 51, 28857>>>>, <<13168, 3, <<50, 52, 28857>>>>,
       <<13169, 3, <<104, 112, 97>>>>, <<13170, 3, <<100, 97>>>>, <<13171, 3, <<97, 117>>>>,
       <<13172, 3, <<98, 97, 114>>>>, <<13173, 3, <<111, 118>>>>, <<13174, 3, <<112, 99>>>>,
       <<13175, 3, <<100, 109>>>>, <<13176, 3, <<100, 109, 50>>>>, <<13177, 3, <<100, 109, 51>>>>,
       <<13178, 3, <<105, 117>>>>, <<13179, 3, <<24179, 25104>>>>, <<13180, 3, <<26157, 21644>>>>,
       <<13181, 3, <<22823, 27491>>>>, <<13182, 3, <<26126, 27835>>>>,
       <<13183, 3, <<26666, 24335, 20250, 31038>>>>, <<13184, 3, <<112, 97>>>>,
       <<13185, 3, <<110, 97>>>>, <<13186, 3, <<956, 97>>>>, <<13187, 3, <<109, 97>>>>,
       <<13188, 3, <<107, 97>>>>, <<13189, 3, <<107, 98>>>>, <<13190, 3, <<109, 98>>>>,
       <<13191, 3, <<103, 98>>>>, <<13192, 3, <<99, 97, 108>>>>,
       <<13193, 3, <<107, 99, 97, 108>>>>, <<13194, 3, <<112, 102>>>>, <<13195, 3, <<110, 102>>>>,
       <<13196, 3, <<956, 102>>>>, <<13197, 3, <<956, 103>>>>, <<13198, 3, <<109, 103>>>>,
       <<13199, 3, <<107, 103>>>>, <<13200, 3, <<104, 122>>>>, <<13201, 3, <<107, 104, 122>>>>,
       <<13202, 3, <<109, 104, 122>>>>, <<13203, 3, <<103, 104, 122>>>>,
       <<13204, 3, <<116, 104, 122>>>>, <<13205, 3, <<956, 108>>>>, <<13206, 3, <<109, 108>>>>,
       <<13207, 3, <<100, 108>>>>, <<13208, 3, <<107, 108>>>>, <<13209, 3, <<102, 109>>>>,
       <<13210, 3, <<110, 109>>>>, <<13211, 3, <<956, 109>>>>, <<13212, 3, <<109, 109>>>>,
       <<13213, 3, <<99, 109>>>>, <<13214, 3, <<107, 109>>>>, <<13215, 3, <<109, 109, 50>>>>,
       <<13216, 3, <<99, 109, 50>>>>, <<13217, 3, <<109, 50>>>>, <<13218, 3, <<107, 109, 50>>>>,
       <<13219, 3, <<109, 109, 51>>>>, <<13220, 3, <<99, 109, 51>>>>, <<13221, 3, <<109, 51>>>>,
       <<13222, 3, <<107, 109, 51>>>>, <<13223, 3, <<109, 8725, 115>>>>,
       <<13224, 3, <<109, 8725, 115, 50>>>>, <<13225, 3, <<112, 97>>>>,
       <<13226, 3, <<107, 112, 97>>>>, <<13227, 3, <<109, 112, 97>>>>,
       <<13228, 3, <<103, 112, 97>>>>, <<13229, 3, <<114, 97, 100>>>>,
       <<13230, 3, <<114, 97, 100, 8725, 115>>>>, <<13231, 3, <<114, 97, 100, 8725, 115, 50>>>>,
       <<13232, 3, <<112, 115>>>>, <<13233, 3, <<110, 115>>>>, <<13234, 3, <<956, 115>>>>,
       <<13235, 3, <<109, 115>>>>, <<13236, 3, <<112, 118>>>>, <<13237, 3, <<110, 118>>>>,
       <<13238, 3, <<956, 118>>>>, <<13239, 3, <<109, 118>>>>, <<13240, 3, <<107, 118>>>>,
       <<13241, 3, <<109, 118>>>>, <<13242, 3, <<112, 119>>>>, <<13243, 3, <<110, 119>>>>,
       <<13244, 3, <<956, 119>>>>, <<13245, 3, <<109, 119>>>>, <<13246, 3, <<107, 119>>>>,
       <<13247, 3, <<109, 119>>>>, <<13248, 3, <<107, 969>>>>, <<13249, 3, <<109, 969>>>>,
       <<13250, 1, <<>>>>, <<13251, 3, <<98, 113>>>>, <<13252, 3, <<99, 99>>>>,
       <<13253, 3, <<99, 100>>>>, <<13254, 3, <<99, 8725, 107, 103>>>>, <<13255, 1, <<>>>>,
       <<13256, 3, <<100, 98>>>>, <<13257, 3, <<103, 121>>>>, <<13258, 3, <<104, 97>>>>,
       <<13259, 3, <<104, 112>>>>, <<13260, 3, <<105, 110>>>>, <<13261, 3, <<107, 107>>>>,
       <<13262, 3, <<107, 109>>>>, <<13263, 3, <<107, 116>>>>, <<13264, 3, <<108, 109>>>>,
       <<13265, 3, <<108, 110>>>>, <<13266, 3, <<108, 111, 103>>>>, <<13267, 3, <<108, 120>>>>,
       <<13268, 3, <<109, 98>>>>, <<13269, 3, <<109, 105, 108>>>>, <<13270, 3, <<109, 111, 108>>>>,
       <<13271, 3, <<112, 104>>>>, <<13272, 1, <<>>>>, <<13273, 3, <<112, 112, 109>>>>,
       <<13274, 3, <<112, 114>>>>, <<13275, 3, <<115, 114>>>>, <<13276, 3, <<115, 118>>>>,
       <<13277, 3, <<119, 98>>>>, <<13278, 3, <<118, 8725, 109>>>>,
       <<13279, 3, <<97, 8725, 109>>>>, <<13280, 3, <<49, 26085>>>>, <<13281, 3, <<50, 26085>>>>,
       <<13282, 3, <<51, 26085>>>>, <<13283, 3, <<52, 26085>>>>, <<13284, 3, <<53, 26085>>>>,
       <<13285, 3, <<54, 26085>>>>, <<13286, 3, <<55, 26085>>>>, <<13287, 3, <<56, 26085>>>>,
       <<13288, 3, <<57, 26085>>>>, <<13289, 3, <<49, 48, 26085>>>>,
       <<13290, 3, <<49, 49, 26085>>>>, <<13291, 3, <<49, 50, 26085>>>>,
       <<13292, 3, <<49, 51, 26085>>>>, <<13293, 3, <<49, 52, 26085>>>>,
       <<13294, 3, <<49, 53, 26085>>>>, <<13295, 3, <<49, 54, 26085>>>>,
       <<13296, 3, <<49, 55, 26085>>>>, <<13297, 3, <<49, 56, 26085>>>>,
       <<13298, 3, <<49, 57, 26085>>>>, <<13299, 3, <<50, 48, 26085>>>>,
       <<13300, 3, <<50, 49, 26085>>>>, <<13301, 3, <<50, 50, 26085>>>>,
       <<13302, 3, <<50, 51, 26085>>>>, <<13303, 3, <<50, 52, 26085>>>>,
       <<13304, 3, <<50, 53, 26085>>>>, <<13305, 3, <<50, 54, 26085>>>>,
       <<13306, 3, <<50, 55, 26085>>>>, <<13307, 3, <<50, 56, 26085>>>>,
       <<13308, 3, <<50, 57, 26085>>>>, <<13309, 3, <<51, 48, 26085>>>>,
       <<13310, 3, <<51, 49, 26085>>>>, <<13311, 3, <<103, 97, 108>>>>, <<13312, 0, <<>>>>,
       <<42125, 1, <<>>>>, <<42128, 0, <<>>>>, <<42183, 1, <<>>>>, <<42192, 0, <<>>>>,
       <<42540, 1, <<>>>>, <<42560, 3, <<42561>>>>, <<42561, 0, <<>>>>, <<42562, 3, <<42563>>>>,
       <<42563, 0, <<>>>>, <<42564, 3, <<42565>>>>, <<42565, 0, <<>>>>, <<42566, 3, <<42567>>>>,
       <<42567, 0, <<>>>>, <<42568, 3, <<42569>>>>, <<42569, 0, <<>>>>, <<42570, 3, <<42571>>>>,
       <<42571, 0, <<>>>>, <<42572, 3, <<42573>>>>, <<42573, 0, <<>>>>, <<42574, 3, <<42575>>>>,
       <<42575, 0, <<>>>>, <<42576, 3, <<42577>>>>, <<42577, 0, <<>>>>, <<42578, 3, <<42579>>>>,
       <<42579, 0, <<>>>>, <<42580, 3, <<42581>>>>, <<42581, 0, <<>>>>, <<42582, 3, <<42583>>>>,
       <<42583, 0, <<>>>>, <<42584, 3, <<42585>>>>, <<42585, 0, <<>>>>, <<42586, 3, <<42587>>>>,
       <<42587, 0, <<>>>>, <<42588, 3, <<42589>>>>, <<42589, 0, <<>>>>, <<42590, 3, <<42591>>>>,
       <<42591, 0, <<>>>>, <<42592, 3, <<42593>>>>, <<42593, 0, <<>>>>, <<42594, 3, <<42595>>>>,
       <<42595, 0, <<>>>>, <<42596, 3, <<42597>>>>, <<42597, 0, <<>>>>, <<42598, 3, <<42599>>>>,
       <<42599, 0, <<>>>>, <<42600, 3, <<42601>>>>, <<42601, 0, <<>>>>, <<42602, 3, <<42603>>>>,
       <<42603, 0, <<>>>>, <<42604, 3, <<42605>>>>, <<42605, 0, <<>>>>, <<42624, 3, <<42625>>>>,
       <<42625, 0, <<>>>>, <<42626, 3, <<42627>>>>, <<42627, 0, <<>>>>, <<42628, 3, <<42629>>>>,
       <<42629, 0, <<>>>>, <<42630, 3, <<42631>>>>, <<42631, 0, <<>>>>, <<42632, 3, <<42633>>>>,
       <<42633, 0, <<>>>>, <<42634, 3, <<42635>>>>, <<42635, 0, <<>>>>, <<42636, 3, <<42637>>>>,
       <<42637, 0, <<>>>>, <<42638, 3, <<42639>>>>, <<42639, 0, <<>>>>, <<42640, 3, <<42641>>>>,
       <<42641, 0, <<>>>>, <<42642, 3, <<42643>>>>, <<42643, 0, <<>>>>, <<42644, 3, <<42645>>>>,
       <<42645, 0, <<>>>>, <<42646, 3, <<42647>>>>, <<42647, 0, <<>>>>, <<42648, 3, <<42649>>>>,
       <<42649, 0, <<>>>>, <<42650, 3, <<42651>>>>, <<42651, 0, <<>>>>, <<42652, 3, <<1098>>>>,
       <<42653, 3, <<1100>>>>, <<42654, 0, <<>>>>, <<42744, 1, <<>>>>, <<42752, 0, <<>>>>,
       <<42786, 3, <<42787>>>>, <<42787, 0, <<>>>>, <<42788, 3, <<42789>>>>, <<42789, 0, <<>>>>,
       <<42790, 3, <<42791>>>>, <<42791, 0, <<>>>>, <<42792, 3, <<42793>>>>, <<42793, 0, <<>>>>,
       <<42794, 3, <<42795>>>>, <<42795, 0, <<>>>>, <<42796, 3, <<42797>>>>, <<42797, 0, <<>>>>,
       <<42798, 3, <<42799>>>>, <<42799, 0, <<>>>>, <<42802, 3, <<42803>>>>, <<42803, 0, <<>>>>,
       <<42804, 3, <<42805>>>>, <<42805, 0, <<>>>>, <<42806, 3, <<42807>>>>, <<42807, 0, <<>>>>,
       <<42808, 3, <<42809>>>>, <<42809, 0, <<>>>>, <<42810, 3, <<42811>>>>, <<42811, 0, <<>>>>,
       <<42812, 3, <<42813>>>>, <<42813, 0, <<>>>>, <<42814, 3, <<42815>>>>, <<42815, 0, <<>>>>,
       <<42816, 3, <<42817>>>>, <<42817, 0, <<>>>>, <<42818, 3, <<42819>>>>, <<42819, 0, <<>>>>,
       <<42820, 3, <<42821>>>>, <<42821, 0, <<>>>>, <<42822, 3, <<42823>>>>, <<42823, 0, <<>>>>,
       <<42824, 3, <<42825>>>>, <<42825, 0, <<>>>>, <<42826, 3, <<42827>>>>, <<42827, 0, <<>>>>,
       <<42828, 3, <<42829>>>>, <<42829, 0, <<>>>>, <<42830, 3, <<42831>>>>, <<42831, 0, <<>>>>,
       <<42832, 3, <<42833>>>>, <<42833, 0, <<>>>>, <<42834, 3, <<42835>>>>, <<42835, 0, <<>>>>,
       <<42836, 3, <<42837>>>>, <<42837, 0, <<>>>>, <<42838, 3, <<42839>>>>, <<42839, 0, <<>>>>,
       <<42840, 3, <<42841>>>>, <<42841, 0, <<>>>>, <<42842, 3, <<42843>>>>, <<42843, 0, <<>>>>,
       <<42844, 3, <<42845>>>>, <<42845, 0, <<>>>>, <<42846, 3, <<42847>>>>, <<42847, 0, <<>>>>,
       <<42848, 3, <<42849>>>>, <<42849, 0, <<>>>>, <<42850, 3, <<42851>>>>, <<42851, 0, <<>>>>,
       <<42852, 3, <<42853>>>>, <<42853, 0, <<>>>>, <<42854, 3, <<42855>>>>, <<42855, 0, <<>>>>,
       <<42856, 3, <<42857>>>>, <<42857, 0, <<>>>>, <<42858, 3, <<42859>>>>, <<42859, 0, <<>>>>,
       <<42860, 3, <<42861>>>>, <<42861, 0, <<>>>>, <<42862, 3, <<42863>>>>, <<42863, 0, <<>>>>,
       <<42864, 3, <<42863>>>>, <<42865, 0, <<>>>>, <<42873, 3, <<42874>>>>, <<42874, 0, <<>>>>,
       <<42875, 3, <<42876>>>>, <<42876, 0, <<>>>>, <<42877, 3, <<7545>>>>,
       <<42878, 3, <<42879>>>>, <<42879, 0, <<>>>>, <<42880, 3, <<42881>>>>, <<42881, 0, <<>>>>,
       <<42882, 3, <<42883>>>>, <<42883, 0, <<>>>>, <<42884, 3, <<42885>>>>, <<42885, 0, <<>>>>,
       <<42886, 3, <<42887>>>>, <<42887, 0, <<>>>>, <<42891, 3, <<42892>>>>, <<42892, 0, <<>>>>,
       <<42893, 3, <<613>>>>, <<42894, 0, <<>>>>, <<42896, 3, <<42897>>>>, <<42897, 0, <<>>>>,
       <<42898, 3, <<42899>>>>, <<42899, 0, <<>>>>, <<42902, 3, <<42903>>>>, <<42903, 0, <<>>>>,
       <<42904, 3, <<42905>>>>, <<42905, 0, <<>>>>, <<42906, 3, <<42907>>>>, <<42907, 0, <<>>>>,
       <<42908, 3, <<42909>>>>, <<42909, 0, <<>>>>, <<42910, 3, <<42911>>>>, <<42911, 0, <<>>>>,
       <<42912, 3, <<42913>>>>, <<42913, 0, <<>>>>, <<42914, 3, <<42915>>>>, <<42915, 0, <<>>>>,
       <<42916, 3, <<42917>>>>, <<42917, 0, <<>>>>, <<42918, 3, <<42919>>>>, <<42919, 0, <<>>>>,
       <<42920, 3, <<42921>>>>, <<42921, 0, <<>>>>, <<42922, 3, <<614>>>>, <<42923, 3, <<604>>>>,
       <<42924, 3, <<609>>>>, <<42925, 3, <<620>>>>, <<42926, 3, <<618>>>>, <<42927, 0, <<>>>>,
       <<42928, 3, <<670>>>>, <<42929, 3, <<647>>>>, <<42930, 3, <<669>>>>,
       <<42931, 3, <<43859>>>>, <<42932, 3, <<42933>>>>, <<42933, 0, <<>>>>,
       <<42934, 3, <<42935>>>>, <<42935, 0, <<>>>>, <<42936, 3, <<42937>>>>, <<42937, 0, <<>>>>,
       <<42938, 3, <<42939>>>>, <<42939, 0, <<>>>>, <<42940, 3, <<42941>>>>, <<42941, 0, <<>>>>,
       <<42942, 3, <<42943>>>>, <<42943, 0, <<>>>>, <<42944, 3, <<42945>>>>, <<42945, 0, <<>>>>,
       <<42946, 3, <<42947>>>>, <<42947, 0, <<>>>>, <<42948, 3, <<42900>>>>, <<42949, 3, <<642>>>>,
       <<42950, 3, <<7566>>>>, <<42951, 3, <<42952>>>>, <<42952, 0, <<>>>>,
       <<42953, 3, <<42954>>>>, <<42954, 0, <<>>>>, <<42955, 1, <<>>>>, <<42960, 3, <<42961>>>>,
       <<42961, 0, <<>>>>, <<42962, 1, <<>>>>, <<42963, 0, <<>>>>, <<42964, 1, <<>>>>,
       <<42965, 0, <<>>>>, <<42966, 3, <<42967>>>>, <<42967, 0, <<>>>>, <<42968, 3, <<42969>>>>,
       <<42969, 0, <<>>>>, <<42970, 1, <<>>>>, <<42994, 3, <<99>>>>, <<42995, 3, <<102>>>>,
       <<42996, 3, <<113>>>>, <<42997, 3, <<42998>>>>, <<42998, 0, <<>>>>, <<43000, 3, <<295>>>>,
       <<43001, 3, <<339>>>>, <<43002, 0, <<>>>>, <<43053, 1, <<>>>>, <<43056, 0, <<>>>>,
       <<43066, 1, <<>>>>, <<43072, 0, <<>>>>, <<43128, 1, <<>>>>, <<43136, 0, <<>>>>,
       <<43206, 1, <<>>>>, <<43214, 0, <<>>>>, <<43226, 1, <<>>>>, <<43232, 0, <<>>>>,
       <<43348, 1, <<>>>>, <<43359, 0, <<>>>>, <<43389, 1, <<>>>>, <<43392, 0, <<>>>>,
       <<43470, 1, <<>>>>, <<43471, 0, <<>>>>, <<43482, 1, <<>>>>, <<43486, 0, <<>>>>,
       <<43519, 1, <<>>>>, <<43520, 0, <<>>>>, <<43575, 1, <<>>>>, <<43584, 0, <<>>>>,
       <<43598, 1, <<>>>>, <<43600, 0, <<>>>>, <<43610, 1, <<>>>>, <<43612, 0, <<>>>>,
       <<43715, 1, <<>>>>, <<43739, 0, <<>>>>, <<43767, 1, <<>>>>, <<43777, 0, <<>>>>,
       <<43783, 1, <<>>>>, <<43785, 0, <<>>>>, <<43791, 1, <<>>>>, <<43793, 0, <<>>>>,
       <<43799, 1, <<>>>>, <<43808, 0, <<>>>>, <<43815, 1, <<>>>>, <<43816, 0, <<>>>>,
       <<43823, 1, <<>>>>, <<43824, 0, <<>>>>, <<43868, 3, <<42791>>>>, <<43869, 3, <<43831>>>>,
       <<43870, 3, <<619>>>>, <<43871, 3, <<43858>>>>, <<43872, 0, <<>>>>, <<43881, 3, <<653>>>>,
       <<43882, 0, <<>>>>, <<43884, 1, <<>>>>, <<43888, 3, <<5024>>>>, <<43889, 3, <<5025>>>>,
       <<43890, 3, <<5026>>>>, <<43891, 3, <<5027>>>>, <<43892, 3, <<5028>>>>,
       <<43893, 3, <<5029>>>>, <<43894, 3, <<5030>>>>, <<43895, 3, <<5031>>>>,
       <<43896, 3, <<5032>>>>, <<43897, 3, <<5033>>>>, <<43898, 3, <<5034>>>>,
       <<43899, 3, <<5035>>>>, <<43900, 3, <<5036>>>>, <<43901, 3, <<5037>>>>,
       <<43902, 3, <<5038>>>>, <<43903, 3, <<5039>>>>, <<43904, 3, <<5040>>>>,
       <<43905, 3, <<5041>>>>, <<43906, 3, <<5042>>>>, <<43907, 3, <<5043>>>>,
       <<43908, 3, <<5044>>>>, <<43909, 3, <<5045>>>>, <<43910, 3, <<5046>>>>,
       <<43911, 3, <<5047>>>>, <<43912, 3, <<5048>>>>, <<43913, 3, <<5049>>>>,
       <<43914, 3, <<5050>>>>, <<43915, 3, <<5051>>>>, <<43916, 3, <<5052>>>>,
       <<43917, 3, <<5053>>>>, <<43918, 3, <<5054>>>>, <<43919, 3, <<5055>>>>,
       <<43920, 3, <<5056>>>>, <<43921, 3, <<5057>>>>, <<43922, 3, <<5058>>>>,
       <<43923, 3, <<5059>>>>, <<43924, 3, <<5060>>>>, <<43925, 3, <<5061>>>>,
       <<43926, 3, <<5062>>>>, <<43927, 3, <<5063>>>>, <<43928, 3, <<5064>>>>,
       <<43929, 3, <<5065>>>>, <<43930, 3, <<5066>>>>, <<43931, 3, <<5067>>>>,
       <<43932, 3, <<5068>>>>, <<43933, 3, <<5069>>>>, <<43934, 3, <<5070>>>>,
       <<43935, 3, <<5071>>>>, <<43936, 3, <<5072>>>>, <<43937, 3, <<5073>>>>,
       <<43938, 3, <<5074>>>>, <<43939, 3, <<5075>>>>, <<43940, 3, <<5076>>>>,
       <<43941, 3, <<5077>>>>, <<43942, 3, <<5078>>>>, <<43943, 3, <<5079>>>>,
       <<43944, 3, <<5080>>>>, <<43945, 3, <<5081>>>>, <<43946, 3, <<5082>>>>,
       <<43947, 3, <<5083>>>>, <<43948, 3, <<5084>>>>, <<43949, 3, <<5085>>>>,
       <<43950, 3, <<5086>>>>, <<43951, 3, <<5087>>>>, <<43952, 3, <<5088>>>>,
       <<43953, 3, <<5089>>>>, <<43954, 3, <<5090>>>>, <<43955, 3, <<5091>>>>,
       <<43956, 3, <<5092>>>>, <<43957, 3, <<5093>>>>, <<43958, 3, <<5094>>>>,
       <<43959, 3, <<5095>>>>, <<43960, 3, <<5096>>>>, <<43961, 3, <<5097>>>>,
       <<43962, 3, <<5098>>>>, <<43963, 3, <<5099>>>>, <<43964, 3, <<5100>>>>,
       <<43965, 3, <<5101>>>>, <<43966, 3, <<5102>>>>, <<43967, 3, <<5103>>>>, <<43968, 0, <<>>>>,
       <<44014, 1, <<>>>>, <<44016, 0, <<>>>>, <<44026, 1, <<>>>>, <<44032, 0, <<>>>>,
       <<55204, 1, <<>>>>, <<55216, 0, <<>>>>, <<55239, 1, <<>>>>, <<55243, 0, <<>>>>,
       <<55292, 1, <<>>>>, <<63744, 3, <<35912>>>>, <<63745, 3, <<26356>>>>,
       <<63746, 3, <<36554>>>>, <<63747, 3, <<36040>>>>, <<63748, 3, <<28369>>>>,
       <<63749, 3, <<20018>>>>, <<63750, 3, <<21477>>>>, <<63751, 3, <<40860>>>>,
       <<63753, 3, <<22865>>>>, <<63754, 3, <<37329>>>>, <<63755, 3, <<21895>>>>,
       <<63756, 3, <<22856>>>>, <<63757, 3, <<25078>>>>, <<63758, 3, <<30313>>>>,
       <<63759, 3, <<32645>>>>, <<63760, 3, <<34367>>>>, <<63761, 3, <<34746>>>>,
       <<63762, 3, <<35064>>>>, <<63763, 3, <<37007>>>>, <<63764, 3, <<27138>>>>,
       <<63765, 3, <<27931>>>>, <<63766, 3, <<28889>>>>, <<63767, 3, <<29662>>>>,
       <<63768, 3, <<33853>>>>, <<63769, 3, <<37226>>>>, <<63770, 3, <<39409>>>>,
       <<63771, 3, <<20098>>>>, <<63772, 3, <<21365>>>>, <<63773, 3, <<27396>>>>,
       <<63774, 3, <<29211>>>>, <<63775, 3, <<34349>>>>, <<63776, 3, <<40478>>>>,
       <<63777, 3, <<23888>>>>, <<63778, 3, <<28651>>>>, <<63779, 3, <<34253>>>>,
       <<63780, 3, <<35172>>>>, <<63781, 3, <<25289>>>>, <<63782, 3, <<33240>>>>,
       <<63783, 3, <<34847>>>>, <<63784, 3, <<24266>>>>, <<63785, 3, <<26391>>>>,
       <<63786, 3, <<28010>>>>, <<63787, 3, <<29436>>>>, <<63788, 3, <<37070>>>>,
       <<63789, 3, <<20358>>>>, <<63790, 3, <<20919>>>>, <<63791, 3, <<21214>>>>,
       <<63792, 3, <<25796>>>>, <<63793, 3, <<27347>>>>, <<63794, 3, <<29200>>>>,
       <<63795, 3, <<30439>>>>, <<63796, 3, <<32769>>>>, <<63797, 3, <<34310>>>>,
       <<63798, 3, <<34396>>>>, <<63799, 3, <<36335>>>>, <<63800, 3, <<38706>>>>,
       <<63801, 3, <<39791>>>>, <<63802, 3, <<40442>>>>, <<63803, 3, <<30860>>>>,
       <<63804, 3, <<31103>>>>, <<63805, 3, <<32160>>>>, <<63806, 3, <<33737>>>>,
       <<63807, 3, <<37636>>>>, <<63808, 3, <<40575>>>>, <<63809, 3, <<35542>>>>,
       <<63810, 3, <<22751>>>>, <<63811, 3, <<24324>>>>, <<63812, 3, <<31840>>>>,
       <<63813, 3, <<32894>>>>, <<63814, 3, <<29282>>>>, <<63815, 3, <<30922>>>>,
       <<63816, 3, <<36034>>>>, <<63817, 3, <<38647>>>>, <<63818, 3, <<22744>>>>,
       <<63819, 3, <<23650>>>>, <<63820, 3, <<27155>>>>, <<63821, 3, <<28122>>>>,
       <<63822, 3, <<28431>>>>, <<63823, 3, <<32047>>>>, <<63824, 3, <<32311>>>>,
       <<63825, 3, <<38475>>>>, <<63826, 3, <<21202>>>>, <<63827, 3, <<32907>>>>,
       <<63828, 3, <<20956>>>>, <<63829, 3, <<20940>>>>, <<63830, 3, <<31260>>>>,
       <<63831, 3, <<32190>>>>, <<63832, 3, <<33777>>>>, <<63833, 3, <<38517>>>>,
       <<63834, 3, <<35712>>>>, <<63835, 3, <<25295>>>>, <<63836, 3, <<27138>>>>,
       <<63837, 3, <<35582>>>>, <<63838, 3, <<20025>>>>, <<63839, 3, <<23527>>>>,
       <<63840, 3, <<24594>>>>, <<63841, 3, <<29575>>>>, <<63842, 3, <<30064>>>>,
       <<63843, 3, <<21271>>>>, <<63844, 3, <<30971>>>>, <<63845, 3, <<20415>>>>,
       <<63846, 3, <<24489>>>>, <<63847, 3, <<19981>>>>, <<63848, 3, <<27852>>>>,
       <<63849, 3, <<25976>>>>, <<63850, 3, <<32034>>>>, <<63851, 3, <<21443>>>>,
       <<63852, 3, <<22622>>>>, <<63853, 3, <<30465>>>>, <<63854, 3, <<33865>>>>,
       <<63855, 3, <<35498>>>>, <<63856, 3, <<27578>>>>, <<63857, 3, <<36784>>>>,
       <<63858, 3, <<27784>>>>, <<63859, 3, <<25342>>>>, <<63860, 3, <<33509>>>>,
       <<63861, 3, <<25504>>>>, <<63862, 3, <<30053>>>>, <<63863, 3, <<20142>>>>,
       <<63864, 3, <<20841>>>>, <<63865, 3, <<20937>>>>, <<63866, 3, <<26753>>>>,
       <<63867, 3, <<31975>>>>, <<63868, 3, <<33391>>>>, <<63869, 3, <<35538>>>>,
       <<63870, 3, <<37327>>>>, <<63871, 3, <<21237>>>>, <<63872, 3, <<21570>>>>,
       <<63873, 3, <<22899>>>>, <<63874, 3, <<24300>>>>, <<63875, 3, <<26053>>>>,
       <<63876, 3, <<28670>>>>, <<63877, 3, <<31018>>>>, <<63878, 3, <<38317>>>>,
       <<63879, 3, <<39530>>>>, <<63880, 3, <<40599>>>>, <<63881, 3, <<40654>>>>,
       <<63882, 3, <<21147>>>>, <<63883, 3, <<26310>>>>, <<63884, 3, <<27511>>>>,
       <<63885, 3, <<36706>>>>, <<63886, 3, <<24180>>>>, <<63887, 3, <<24976>>>>,
       <<63888, 3, <<25088>>>>, <<63889, 3, <<25754>>>>, <<63890, 3, <<28451>>>>,
       <<63891, 3, <<29001>>>>, <<63892, 3, <<29833>>>>, <<63893, 3, <<31178>>>>,
       <<63894, 3, <<32244>>>>, <<63895, 3, <<32879>>>>, <<63896, 3, <<36646>>>>,
       <<63897, 3, <<34030>>>>, <<63898, 3, <<36899>>>>, <<63899, 3, <<37706>>>>,
       <<63900, 3, <<21015>>>>, <<63901, 3, <<21155>>>>, <<63902, 3, <<21693>>>>,
       <<63903, 3, <<28872>>>>, <<63904, 3, <<35010>>>>, <<63905, 3, <<35498>>>>,
       <<63906, 3, <<24265>>>>, <<63907, 3, <<24565>>>>, <<63908, 3, <<25467>>>>,
       <<63909, 3, <<27566>>>>, <<63910, 3, <<31806>>>>, <<63911, 3, <<29557>>>>,
       <<63912, 3, <<20196>>>>, <<63913, 3, <<22265>>>>, <<63914, 3, <<23527>>>>,
       <<63915, 3, <<23994>>>>, <<63916, 3, <<24604>>>>, <<63917, 3, <<29618>>>>,
       <<63918, 3, <<29801>>>>, <<63919, 3, <<32666>>>>, <<63920, 3, <<32838>>>>,
       <<63921, 3, <<37428>>>>, <<63922, 3, <<38646>>>>, <<63923, 3, <<38728>>>>,
       <<63924, 3, <<38936>>>>, <<63925, 3, <<20363>>>>, <<63926, 3, <<31150>>>>,
       <<63927, 3, <<37300>>>>, <<63928, 3, <<38584>>>>, <<63929, 3, <<24801>>>>,
       <<63930, 3, <<20102>>>>, <<63931, 3, <<20698>>>>, <<63932, 3, <<23534>>>>,
       <<63933, 3, <<23615>>>>, <<63934, 3, <<26009>>>>, <<63935, 3, <<27138>>>>,
       <<63936, 3, <<29134>>>>, <<63937, 3, <<30274>>>>, <<63938, 3, <<34044>>>>,
       <<63939, 3, <<36988>>>>, <<63940, 3, <<40845>>>>, <<63941, 3, <<26248>>>>,
       <<63942, 3, <<38446>>>>, <<63943, 3, <<21129>>>>, <<63944, 3, <<26491>>>>,
       <<63945, 3, <<26611>>>>, <<63946, 3, <<27969>>>>, <<63947, 3, <<28316>>>>,
       <<63948, 3, <<29705>>>>, <<63949, 3, <<30041>>>>, <<63950, 3, <<30827>>>>,
       <<63951, 3, <<32016>>>>, <<63952, 3, <<39006>>>>, <<63953, 3, <<20845>>>>,
       <<63954, 3, <<25134>>>>, <<63955, 3, <<38520>>>>, <<63956, 3, <<20523>>>>,
       <<63957, 3, <<23833>>>>, <<63958, 3, <<28138>>>>, <<63959, 3, <<36650>>>>,
       <<63960, 3, <<24459>>>>, <<63961, 3, <<24900>>>>, <<63962, 3, <<26647>>>>,
       <<63963, 3, <<29575>>>>, <<63964, 3, <<38534>>>>, <<63965, 3, <<21033>>>>,
       <<63966, 3, <<21519>>>>, <<63967, 3, <<23653>>>>, <<63968, 3, <<26131>>>>,
       <<63969, 3, <<26446>>>>, <<63970, 3, <<26792>>>>, <<63971, 3, <<27877>>>>,
       <<63972, 3, <<29702>>>>, <<63973, 3, <<30178>>>>, <<63974, 3, <<32633>>>>,
       <<63975, 3, <<35023>>>>, <<63976, 3, <<35041>>>>, <<63977, 3, <<37324>>>>,
       <<63978, 3, <<38626>>>>, <<63979, 3, <<21311>>>>, <<63980, 3, <<28346>>>>,
       <<63981, 3, <<21533>>>>, <<63982, 3, <<29136>>>>, <<63983, 3, <<29848>>>>,
       <<63984, 3, <<34298>>>>, <<63985, 3, <<38563>>>>, <<63986, 3, <<40023>>>>,
       <<63987, 3, <<40607>>>>, <<63988, 3, <<26519>>>>, <<63989, 3, <<28107>>>>,
       <<63990, 3, <<33256>>>>, <<63991, 3, <<31435>>>>, <<63992, 3, <<31520>>>>,
       <<63993, 3, <<31890>>>>, <<63994, 3, <<29376>>>>, <<63995, 3, <<28825>>>>,
       <<63996, 3, <<35672>>>>, <<63997, 3, <<20160>>>>, <<63998, 3, <<33590>>>>,
       <<63999, 3, <<21050>>>>, <<64000, 3, <<20999>>>>, <<64001, 3, <<24230>>>>,
       <<64002, 3, <<25299>>>>, <<64003, 3, <<31958>>>>, <<64004, 3, <<23429>>>>,
       <<64005, 3, <<27934>>>>, <<64006, 3, <<26292>>>>, <<64007, 3, <<36667>>>>,
       <<64008, 3, <<34892>>>>, <<64009, 3, <<38477>>>>, <<64010, 3, <<35211>>>>,
       <<64011, 3, <<24275>>>>, <<64012, 3, <<20800>>>>, <<64013, 3, <<21952>>>>,
       <<64014, 0, <<>>>>, <<64016, 3, <<22618>>>>, <<64017, 0, <<>>>>, <<64018, 3, <<26228>>>>,
       <<64019, 0, <<>>>>, <<64021, 3, <<20958>>>>, <<64022, 3, <<29482>>>>,
       <<64023, 3, <<30410>>>>, <<64024, 3, <<31036>>>>, <<64025, 3, <<31070>>>>,
       <<64026, 3, <<31077>>>>, <<64027, 3, <<31119>>>>, <<64028, 3, <<38742>>>>,
       <<64029, 3, <<31934>>>>, <<64030, 3, <<32701>>>>, <<64031, 0, <<>>>>,
       <<64032, 3, <<34322>>>>, <<64033, 0, <<>>>>, <<64034, 3, <<35576>>>>, <<64035, 0, <<>>>>,
       <<64037, 3, <<36920>>>>, <<64038, 3, <<37117>>>>, <<64039, 0, <<>>>>,
       <<64042, 3, <<39151>>>>, <<64043, 3, <<39164>>>>, <<64044, 3, <<39208>>>>,
       <<64045, 3, <<40372>>>>, <<64046, 3, <<37086>>>>, <<64047, 3, <<38583>>>>,
       <<64048, 3, <<20398>>>>, <<64049, 3, <<20711>>>>, <<64050, 3, <<20813>>>>,
       <<64051, 3, <<21193>>>>, <<64052, 3, <<21220>>>>, <<64053, 3, <<21329>>>>,
       <<64054, 3, <<21917>>>>, <<64055, 3, <<22022>>>>, <<64056, 3, <<22120>>>>,
       <<64057, 3, <<22592>>>>, <<64058, 3, <<22696>>>>, <<64059, 3, <<23652>>>>,
       <<64060, 3, <<23662>>>>, <<64061, 3, <<24724>>>>, <<64062, 3, <<24936>>>>,
       <<64063, 3, <<24974>>>>, <<64064, 3, <<25074>>>>, <<64065, 3, <<25935>>>>,
       <<64066, 3, <<26082>>>>, <<64067, 3, <<26257>>>>, <<64068, 3, <<26757>>>>,
       <<64069, 3, <<28023>>>>, <<64070, 3, <<28186>>>>, <<64071, 3, <<28450>>>>,
       <<64072, 3, <<29038>>>>, <<64073, 3, <<29227>>>>, <<64074, 3, <<29730>>>>,
       <<64075, 3, <<30865>>>>, <<64076, 3, <<31038>>>>, <<64077, 3, <<31049>>>>,
       <<64078, 3, <<31048>>>>, <<64079, 3, <<31056>>>>, <<64080, 3, <<31062>>>>,
       <<64081, 3, <<31069>>>>, <<64082, 3, <<31117>>>>, <<64083, 3, <<31118>>>>,
       <<64084, 3, <<31296>>>>, <<64085, 3, <<31361>>>>, <<64086, 3, <<31680>>>>,
       <<64087, 3, <<32244>>>>, <<64088, 3, <<32265>>>>, <<64089, 3, <<32321>>>>,
       <<64090, 3, <<32626>>>>, <<64091, 3, <<32773>>>>, <<64092, 3, <<33261>>>>,
       <<64093, 3, <<33401>>>>, <<64095, 3, <<33879>>>>, <<64096, 3, <<35088>>>>,
       <<64097, 3, <<35222>>>>, <<64098, 3, <<35585>>>>, <<64099, 3, <<35641>>>>,
       <<64100, 3, <<36051>>>>, <<64101, 3, <<36104>>>>, <<64102, 3, <<36790>>>>,
       <<64103, 3, <<36920>>>>, <<64104, 3, <<38627>>>>, <<64105, 3, <<38911>>>>,
       <<64106, 3, <<38971>>>>, <<64107, 3, <<24693>>>>, <<64108, 3, <<148206>>>>,
       <<64109, 3, <<33304>>>>, <<64110, 1, <<>>>>, <<64112, 3, <<20006>>>>,
       <<64113, 3, <<20917>>>>, <<64114, 3, <<20840>>>>, <<64115, 3, <<20352>>>>,
       <<64116, 3, <<20805>>>>, <<64117, 3, <<20864>>>>, <<64118, 3, <<21191>>>>,
       <<64119, 3, <<21242>>>>, <<64120, 3, <<21917>>>>, <<64121, 3, <<21845>>>>,
       <<64122, 3, <<21913>>>>, <<64123, 3, <<21986>>>>, <<64124, 3, <<22618>>>>,
       <<64125, 3, <<22707>>>>, <<64126, 3, <<22852>>>>, <<64127, 3, <<22868>>>>,
       <<64128, 3, <<23138>>>>, <<64129, 3, <<23336>>>>, <<64130, 3, <<24274>>>>,
       <<64131, 3, <<24281>>>>, <<64132, 3, <<24425>>>>, <<64133, 3, <<24493>>>>,
       <<64134, 3, <<24792>>>>, <<64135, 3, <<24910>>>>, <<64136, 3, <<24840>>>>,
       <<64137, 3, <<24974>>>>, <<64138, 3, <<24928>>>>, <<64139, 3, <<25074>>>>,
       <<64140, 3, <<25140>>>>, <<64141, 3, <<25540>>>>, <<64142, 3, <<25628>>>>,
       <<64143, 3, <<25682>>>>, <<64144, 3, <<25942>>>>, <<64145, 3, <<26228>>>>,
       <<64146, 3, <<26391>>>>, <<64147, 3, <<26395>>>>, <<64148, 3, <<26454>>>>,
       <<64149, 3, <<27513>>>>, <<64150, 3, <<27578>>>>, <<64151, 3, <<27969>>>>,
       <<64152, 3, <<28379>>>>, <<64153, 3, <<28363>>>>, <<64154, 3, <<28450>>>>,
       <<64155, 3, <<28702>>>>, <<64156, 3, <<29038>>>>, <<64157, 3, <<30631>>>>,
       <<64158, 3, <<29237>>>>, <<64159, 3, <<29359>>>>, <<64160, 3, <<29482>>>>,
       <<64161, 3, <<29809>>>>, <<64162, 3, <<29958>>>>, <<64163, 3, <<30011>>>>,
       <<64164, 3, <<30237>>>>, <<64165, 3, <<30239>>>>, <<64166, 3, <<30410>>>>,
       <<64167, 3, <<30427>>>>, <<64168, 3, <<30452>>>>, <<64169, 3, <<30538>>>>,
       <<64170, 3, <<30528>>>>, <<64171, 3, <<30924>>>>, <<64172, 3, <<31409>>>>,
       <<64173, 3, <<31680>>>>, <<64174, 3, <<31867>>>>, <<64175, 3, <<32091>>>>,
       <<64176, 3, <<32244>>>>, <<64177, 3, <<32574>>>>, <<64178, 3, <<32773>>>>,
       <<64179, 3, <<33618>>>>, <<64180, 3, <<33775>>>>, <<64181, 3, <<34681>>>>,
       <<64182, 3, <<35137>>>>, <<64183, 3, <<35206>>>>, <<64184, 3, <<35222>>>>,
       <<64185, 3, <<35519>>>>, <<64186, 3, <<35576>>>>, <<64187, 3, <<35531>>>>,
       <<64188, 3, <<35585>>>>, <<64189, 3, <<35582>>>>, <<64190, 3, <<35565>>>>,
       <<64191, 3, <<35641>>>>, <<64192, 3, <<35722>>>>, <<64193, 3, <<36104>>>>,
       <<64194, 3, <<36664>>>>, <<64195, 3, <<36978>>>>, <<64196, 3, <<37273>>>>,
       <<64197, 3, <<37494>>>>, <<64198, 3, <<38524>>>>, <<64199, 3, <<38627>>>>,
       <<64200, 3, <<38742>>>>, <<64201, 3, <<38875>>>>, <<64202, 3, <<38911>>>>,
       <<64203, 3, <<38923>>>>, <<64204, 3, <<38971>>>>, <<64205, 3, <<39698>>>>,
       <<64206, 3, <<40860>>>>, <<64207, 3, <<141386>>>>, <<64208, 3, <<141380>>>>,
       <<64209, 3, <<144341>>>>, <<64210, 3, <<15261>>>>, <<64211, 3, <<16408>>>>,
       <<64212, 3, <<16441>>>>, <<64213, 3, <<152137>>>>, <<64214, 3, <<154832>>>>,
       <<64215, 3, <<163539>>>>, <<64216, 3, <<40771>>>>, <<64217, 3, <<40846>>>>,
       <<64218, 1, <<>>>>, <<64256, 3, <<102, 102>>>>, <<64257, 3, <<102, 105>>>>,
       <<64258, 3, <<102, 108>>>>, <<64259, 3, <<102, 102, 105>>>>,
       <<64260, 3, <<102, 102, 108>>>>, <<64261, 3, <<115, 116>>>>, <<64263, 1, <<>>>>,
       <<64275, 3, <<1396, 1398>>>>, <<64276, 3, <<1396, 1381>>>>, <<64277, 3, <<1396, 1387>>>>,
       <<64278, 3, <<1406, 1398>>>>, <<64279, 3, <<1396, 1389>>>>, <<64280, 1, <<>>>>,
       <<64285, 3, <<1497, 1460>>>>, <<64286, 0, <<>>>>, <<64287, 3, <<1522, 1463>>>>,
       <<64288, 3, <<1506>>>>, <<64289, 3, <<1488>>>>, <<64290, 3, <<1491>>>>,
       <<64291, 3, <<1492>>>>, <<64292, 3, <<1499>>>>, <<64293, 3, <<1500>>>>,
       <<64294, 3, <<1501>>>>, <<64295, 3, <<1512>>>>, <<64296, 3, <<1514>>>>,
       <<64297, 3, <<43>>>>, <<64298, 3, <<1513, 1473>>>>, <<64299, 3, <<1513, 1474>>>>,
       <<64300, 3, <<1513, 1468, 1473>>>>, <<64301, 3, <<1513, 1468, 1474>>>>,
       <<64302, 3, <<1488, 1463>>>>, <<64303, 3, <<1488, 1464>>>>, <<64304, 3, <<1488, 1468>>>>,
       <<64305, 3, <<1489, 1468>>>>, <<64306, 3, <<1490, 1468>>>>, <<64307, 3, <<1491, 1468>>>>,
       <<64308, 3, <<1492, 1468>>>>, <<64309, 3, <<1493, 1468>>>>, <<64310, 3, <<1494, 1468>>>>,
       <<64311, 1, <<>>>>, <<64312, 3, <<1496, 1468>>>>, <<64313, 3, <<1497, 1468>>>>,
       <<64314, 3, <<1498, 1468>>>>, <<64315, 3, <<1499, 1468>>>>, <<64316, 3, <<1500, 1468>>>>,
       <<64317, 1, <<>>>>, <<64318, 3, <<1502, 1468>>>>, <<64319, 1, <<>>>>,
       <<64320, 3, <<1504, 1468>>>>, <<64321, 3, <<1505, 1468>>>>, <<64322, 1, <<>>>>,
       <<64323, 3, <<1507, 1468>>>>, <<64324, 3, <<1508, 1468>>>>, <<64325, 1, <<>>>>,
       <<64326, 3, <<1510, 1468>>>>, <<64327, 3, <<1511, 1468>>>>, <<64328, 3, <<1512, 1468>>>>,
       <<64329, 3, <<1513, 1468>>>>, <<64330, 3, <<1514, 1468>>>>, <<64331, 3, <<1493, 1465>>>>,
       <<64332, 3, <<1489, 1471>>>>, <<64333, 3, <<1499, 1471>>>>, <<64334, 3, <<1508, 1471>>>>,
       <<64335, 3, <<1488, 1500>>>>, <<64336, 3, <<1649>>>>, <<64338, 3, <<1659>>>>,
       <<64342, 3, <<1662>>>>, <<64346, 3, <<1664>>>>, <<64350, 3, <<1658>>>>,
       <<64354, 3, <<1663>>>>, <<64358, 3, <<1657>>>>, <<64362, 3, <<1700>>>>,
       <<64366, 3, <<1702>>>>, <<64370, 3, <<1668>>>>, <<64374, 3, <<1667>>>>,
       <<64378, 3, <<1670>>>>, <<64382, 3, <<1671>>>>, <<64386, 3, <<1677>>>>,
       <<64388, 3, <<1676>>>>, <<64390, 3, <<1678>>>>, <<64392, 3, <<1672>>>>,
       <<64394, 3, <<1688>>>>, <<64396, 3, <<1681>>>>, <<64398, 3, <<1705>>>>,
       <<64402, 3, <<1711>>>>, <<64406, 3, <<1715>>>>, <<64410, 3, <<1713>>>>,
       <<64414, 3, <<1722>>>>, <<64416, 3, <<1723>>>>, <<64420, 3, <<1728>>>>,
       <<64422, 3, <<1729>>>>, <<64426, 3, <<1726>>>>, <<64430, 3, <<1746>>>>,
       <<64432, 3, <<1747>>>>, <<64434, 0, <<>>>>, <<64451, 1, <<>>>>, <<64467, 3, <<1709>>>>,
       <<64471, 3, <<1735>>>>, <<64473, 3, <<1734>>>>, <<64475, 3, <<1736>>>>,
       <<64477, 3, <<1735, 1652>>>>, <<64478, 3, <<1739>>>>, <<64480, 3, <<1733>>>>,
       <<64482, 3, <<1737>>>>, <<64484, 3, <<1744>>>>, <<64488, 3, <<1609>>>>,
       <<64490, 3, <<1574, 1575>>>>, <<64492, 3, <<1574, 1749>>>>, <<64494, 3, <<1574, 1608>>>>,
       <<64496, 3, <<1574, 1735>>>>, <<64498, 3, <<1574, 1734>>>>, <<64500, 3, <<1574, 1736>>>>,
       <<64502, 3, <<1574, 1744>>>>, <<64505, 3, <<1574, 1609>>>>, <<64508, 3, <<1740>>>>,
       <<64512, 3, <<1574, 1580>>>>, <<64513, 3, <<1574, 1581>>>>, <<64514, 3, <<1574, 1605>>>>,
       <<64515, 3, <<1574, 1609>>>>, <<64516, 3, <<1574, 1610>>>>, <<64517, 3, <<1576, 1580>>>>,
       <<64518, 3, <<1576, 1581>>>>, <<64519, 3, <<1576, 1582>>>>, <<64520, 3, <<1576, 1605>>>>,
       <<64521, 3, <<1576, 1609>>>>, <<64522, 3, <<1576, 1610>>>>, <<64523, 3, <<1578, 1580>>>>,
       <<64524, 3, <<1578, 1581>>>>, <<64525, 3, <<1578, 1582>>>>, <<64526, 3, <<1578, 1605>>>>,
       <<64527, 3, <<1578, 1609>>>>, <<64528, 3, <<1578, 1610>>>>, <<64529, 3, <<1579, 1580>>>>,
       <<64530, 3, <<1579, 1605>>>>, <<64531, 3, <<1579, 1609>>>>, <<64532, 3, <<1579, 1610>>>>,
       <<64533, 3, <<1580, 1581>>>>, <<64534, 3, <<1580, 1605>>>>, <<64535, 3, <<1581, 1580>>>>,
       <<64536, 3, <<1581, 1605>>>>, <<64537, 3, <<1582, 1580>>>>, <<64538, 3, <<1582, 1581>>>>,
       <<64539, 3, <<1582, 1605>>>>, <<64540, 3, <<1587, 1580>>>>, <<64541, 3, <<1587, 1581>>>>,
       <<64542, 3, <<1587, 1582>>>>, <<64543, 3, <<1587, 1605>>>>, <<64544, 3, <<1589, 1581>>>>,
       <<64545, 3, <<1589, 1605>>>>, <<64546, 3, <<1590, 1580>>>>, <<64547, 3, <<1590, 1581>>>>,
       <<64548, 3, <<1590, 1582>>>>, <<64549, 3, <<1590, 1605>>>>, <<64550, 3, <<1591, 1581>>>>,
       <<64551, 3, <<1591, 1605>>>>, <<64552, 3, <<1592, 1605>>>>, <<64553, 3, <<1593, 1580>>>>,
       <<64554, 3, <<1593, 1605>>>>, <<64555, 3, <<1594, 1580>>>>, <<64556, 3, <<1594, 1605>>>>,
       <<64557, 3, <<1601, 1580>>>>, <<64558, 3, <<1601, 1581>>>>, <<64559, 3, <<1601, 1582>>>>,
       <<64560, 3, <<1601, 1605>>>>, <<64561, 3, <<1601, 1609>>>>, <<64562, 3, <<1601, 1610>>>>,
       <<64563, 3, <<1602, 1581>>>>, <<64564, 3, <<1602, 1605>>>>, <<64565, 3, <<1602, 1609>>>>,
       <<64566, 3, <<1602, 1610>>>>, <<64567, 3, <<1603, 1575>>>>, <<64568, 3, <<1603, 1580>>>>,
       <<64569, 3, <<1603, 1581>>>>, <<64570, 3, <<1603, 1582>>>>, <<64571, 3, <<1603, 1604>>>>,
       <<64572, 3, <<1603, 1605>>>>, <<64573, 3, <<1603, 1609>>>>, <<64574, 3, <<1603, 1610>>>>,
       <<64575, 3, <<1604, 1580>>>>, <<64576, 3, <<1604, 1581>>>>, <<64577, 3, <<1604, 1582>>>>,
       <<64578, 3, <<1604, 1605>>>>, <<64579, 3, <<1604, 1609>>>>, <<64580, 3, <<1604, 1610>>>>,
       <<64581, 3, <<1605, 1580>>>>, <<64582, 3, <<1605, 1581>>>>, <<64583, 3, <<1605, 1582>>>>,
       <<64584, 3, <<1605, 1605>>>>, <<64585, 3, <<1605, 1609>>>>, <<64586, 3, <<1605, 1610>>>>,
       <<64587, 3, <<1606, 1580>>>>, <<64588, 3, <<1606, 1581>>>>, <<64589, 3, <<1606, 1582>>>>,
       <<64590, 3, <<1606, 1605>>>>, <<64591, 3, <<1606, 1609>>>>, <<64592, 3, <<1606, 1610>>>>,
       <<64593, 3, <<1607, 1580>>>>, <<64594, 3, <<1607, 1605>>>>, <<64595, 3, <<1607, 1609>>>>,
       <<64596, 3, <<1607, 1610>>>>, <<64597, 3, <<1610, 1580>>>>, <<64598, 3, <<1610, 1581>>>>,
       <<64599, 3, <<1610, 1582>>>>, <<64600, 3, <<1610, 1605>>>>, <<64601, 3, <<1610, 1609>>>>,
       <<64602, 3, <<1610, 1610>>>>, <<64603, 3, <<1584, 1648>>>>, <<64604, 3, <<1585, 1648>>>>,
       <<64605, 3, <<1609, 1648>>>>, <<64606, 3, <<32, 1612, 1617>>>>,
       <<64607, 3, <<32, 1613, 1617>>>>, <<64608, 3, <<32, 1614, 1617>>>>,
       <<64609, 3, <<32, 1615, 1617>>>>, <<64610, 3, <<32, 1616, 1617>>>>,
       <<64611, 3, <<32, 1617, 1648>>>>, <<64612, 3, <<1574, 1585>>>>,
       <<64613, 3, <<1574, 1586>>>>, <<64614, 3, <<1574, 1605>>>>, <<64615, 3, <<1574, 1606>>>>,
       <<64616, 3, <<1574, 1609>>>>, <<64617, 3, <<1574, 1610>>>>, <<64618, 3, <<1576, 1585>>>>,
       <<64619, 3, <<1576, 1586>>>>, <<64620, 3, <<1576, 1605>>>>, <<64621, 3, <<1576, 1606>>>>,
       <<64622, 3, <<1576, 1609>>>>, <<64623, 3, <<1576, 1610>>>>, <<64624, 3, <<1578, 1585>>>>,
       <<64625, 3, <<1578, 1586>>>>, <<64626, 3, <<1578, 1605>>>>, <<64627, 3, <<1578, 1606>>>>,
       <<64628, 3, <<1578, 1609>>>>, <<64629, 3, <<1578, 1610>>>>, <<64630, 3, <<1579, 1585>>>>,
       <<64631, 3, <<1579, 1586>>>>, <<64632, 3, <<1579, 1605>>>>, <<64633, 3, <<1579, 1606>>>>,
       <<64634, 3, <<1579, 1609>>>>, <<64635, 3, <<1579, 1610>>>>, <<64636, 3, <<1601, 1609>>>>,
       <<64637, 3, <<1601, 1610>>>>, <<64638, 3, <<1602, 1609>>>>, <<64639, 3, <<1602, 1610>>>>,
       <<64640, 3, <<1603, 1575>>>>, <<64641, 3, <<1603, 1604>>>>, <<64642, 3, <<1603, 1605>>>>,
       <<64643, 3, <<1603, 1609>>>>, <<64644, 3, <<1603, 1610>>>>, <<64645, 3, <<1604, 1605>>>>,
       <<64646, 3, <<1604, 1609>>>>, <<64647, 3, <<1604, 1610>>>>, <<64648, 3, <<1605, 1575>>>>,
       <<64649, 3, <<1605, 1605>>>>, <<64650, 3, <<1606, 1585>>>>, <<64651, 3, <<1606, 1586>>>>,
       <<64652, 3, <<1606, 1605>>>>, <<64653, 3, <<1606, 1606>>>>, <<64654, 3, <<1606, 1609>>>>,
       <<64655, 3, <<1606, 1610>>>>, <<64656, 3, <<1609, 1648>>>>, <<64657, 3, <<1610, 1585>>>>,
       <<64658, 3, <<1610, 1586>>>>, <<64659, 3, <<1610, 1605>>>>, <<64660, 3, <<1610, 1606>>>>,
       <<64661, 3, <<1610, 1609>>>>, <<64662, 3, <<1610, 1610>>>>, <<64663, 3, <<1574, 1580>>>>,
       <<64664, 3, <<1574, 1581>>>>, <<64665, 3, <<1574, 1582>>>>, <<64666, 3, <<1574, 1605>>>>,
       <<64667, 3, <<1574, 1607>>>>, <<64668, 3, <<1576, 1580>>>>, <<64669, 3, <<1576, 1581>>>>,
       <<64670, 3, <<1576, 1582>>>>, <<64671, 3, <<1576, 1605>>>>, <<64672, 3, <<1576, 1607>>>>,
       <<64673, 3, <<1578, 1580>>>>, <<64674, 3, <<1578, 1581>>>>, <<64675, 3, <<1578, 1582>>>>,
       <<64676, 3, <<1578, 1605>>>>, <<64677, 3, <<1578, 1607>>>>, <<64678, 3, <<1579, 1605>>>>,
       <<64679, 3, <<1580, 1581>>>>, <<64680, 3, <<1580, 1605>>>>, <<64681, 3, <<1581, 1580>>>>,
       <<64682, 3, <<1581, 1605>>>>, <<64683, 3, <<1582, 1580>>>>, <<64684, 3, <<1582, 1605>>>>,
       <<64685, 3, <<1587, 1580>>>>, <<64686, 3, <<1587, 1581>>>>, <<64687, 3, <<1587, 1582>>>>,
       <<64688, 3, <<1587, 1605>>>>, <<64689, 3, <<1589, 1581>>>>, <<64690, 3, <<1589, 1582>>>>,
       <<64691, 3, <<1589, 1605>>>>, <<64692, 3, <<1590, 1580>>>>, <<64693, 3, <<1590, 1581>>>>,
       <<64694, 3, <<1590, 1582>>>>, <<64695, 3, <<1590, 1605>>>>, <<64696, 3, <<1591, 1581>>>>,
       <<64697, 3, <<1592, 1605>>>>, <<64698, 3, <<1593, 1580>>>>, <<64699, 3, <<1593, 1605>>>>,
       <<64700, 3, <<1594, 1580>>>>, <<64701, 3, <<1594, 1605>>>>, <<64702, 3, <<1601, 1580>>>>,
       <<64703, 3, <<1601, 1581>>>>, <<64704, 3, <<1601, 1582>>>>, <<64705, 3, <<1601, 1605>>>>,
       <<64706, 3, <<1602, 1581>>>>, <<64707, 3, <<1602, 1605>>>>, <<64708, 3, <<1603, 1580>>>>,
       <<64709, 3, <<1603, 1581>>>>, <<64710, 3, <<1603, 1582>>>>, <<64711, 3, <<1603, 1604>>>>,
       <<64712, 3, <<1603, 1605>>>>, <<64713, 3, <<1604, 1580>>>>, <<64714, 3, <<1604, 1581>>>>,
       <<64715, 3, <<1604, 1582>>>>, <<64716, 3, <<1604, 1605>>>>, <<64717, 3, <<1604, 1607>>>>,
       <<64718, 3, <<1605, 1580>>>>, <<64719, 3, <<1605, 1581>>>>, <<64720, 3, <<1605, 1582>>>>,
       <<64721, 3, <<1605, 1605>>>>, <<64722, 3, <<1606, 1580>>>>, <<64723, 3, <<1606, 1581>>>>,
       <<64724, 3, <<1606, 1582>>>>, <<64725, 3, <<1606, 1605>>>>, <<64726, 3, <<1606, 1607>>>>,
       <<64727, 3, <<1607, 1580>>>>, <<64728, 3, <<1607, 1605>>>>, <<64729, 3, <<1607, 1648>>>>,
       <<64730, 3, <<1610, 1580>>>>, <<64731, 3, <<1610, 1581>>>>, <<64732, 3, <<1610, 1582>>>>,
       <<64733, 3, <<1610, 1605>>>>, <<64734, 3, <<1610, 1607>>>>, <<64735, 3, <<1574, 1605>>>>,
       <<64736, 3, <<1574, 1607>>>>, <<64737, 3, <<1576, 1605>>>>, <<64738, 3, <<1576, 1607>>>>,
       <<64739, 3, <<1578, 1605>>>>, <<64740, 3, <<1578, 1607>>>>, <<64741, 3, <<1579, 1605>>>>,
       <<64742, 3, <<1579, 1607>>>>, <<64743, 3, <<1587, 1605>>>>, <<64744, 3, <<1587, 1607>>>>,
       <<64745, 3, <<1588, 1605>>>>, <<64746, 3, <<1588, 1607>>>>, <<64747, 3, <<1603, 1604>>>>,
       <<64748, 3, <<1603, 1605>>>>, <<64749, 3, <<1604, 1605>>>>, <<64750, 3, <<1606, 1605>>>>,
       <<64751, 3, <<1606, 1607>>>>, <<64752, 3, <<1610, 1605>>>>, <<64753, 3, <<1610, 1607>>>>,
       <<64754, 3, <<1600, 1614, 1617>>>>, <<64755, 3, <<1600, 1615, 1617>>>>,
       <<64756, 3, <<1600, 1616, 1617>>>>, <<64757, 3, <<1591, 1609>>>>,
       <<64758, 3, <<1591, 1610>>>>, <<64759, 3, <<1593, 1609>>>>, <<64760, 3, <<1593, 1610>>>>,
       <<64761, 3, <<1594, 1609>>>>, <<64762, 3, <<1594, 1610>>>>, <<64763, 3, <<1587, 1609>>>>,
       <<64764, 3, <<1587, 1610>>>>, <<64765, 3, <<1588, 1609>>>>, <<64766, 3, <<1588, 1610>>>>,
       <<64767, 3, <<1581, 1609>>>>, <<64768, 3, <<1581, 1610>>>>, <<64769, 3, <<1580, 1609>>>>,
       <<64770, 3, <<1580, 1610>>>>, <<64771, 3, <<1582, 1609>>>>, <<64772, 3, <<1582, 1610>>>>,
       <<64773, 3, <<1589, 1609>>>>, <<64774, 3, <<1589, 1610>>>>, <<64775, 3, <<1590, 1609>>>>,
       <<64776, 3, <<1590, 1610>>>>, <<64777, 3, <<1588, 1580>>>>, <<64778, 3, <<1588, 1581>>>>,
       <<64779, 3, <<1588, 1582>>>>, <<64780, 3, <<1588, 1605>>>>, <<64781, 3, <<1588, 1585>>>>,
       <<64782, 3, <<1587, 1585>>>>, <<64783, 3, <<1589, 1585>>>>, <<64784, 3, <<1590, 1585>>>>,
       <<64785, 3, <<1591, 1609>>>>, <<64786, 3, <<1591, 1610>>>>, <<64787, 3, <<1593, 1609>>>>,
       <<64788, 3, <<1593, 1610>>>>, <<64789, 3, <<1594, 1609>>>>, <<64790, 3, <<1594, 1610>>>>,
       <<64791, 3, <<1587, 1609>>>>, <<64792, 3, <<1587, 1610>>>>, <<64793, 3, <<1588, 1609>>>>,
       <<64794, 3, <<1588, 1610>>>>, <<64795, 3, <<1581, 1609>>>>, <<64796, 3, <<1581, 1610>>>>,
       <<64797, 3, <<1580, 1609>>>>, <<64798, 3, <<1580, 1610>>>>, <<64799, 3, <<1582, 1609>>>>,
       <<64800, 3, <<1582, 1610>>>>, <<64801, 3, <<1589, 1609>>>>, <<64802, 3, <<1589, 1610>>>>,
       <<64803, 3, <<1590, 1609>>>>, <<64804, 3, <<1590, 1610>>>>, <<64805, 3, <<1588, 1580>>>>,
       <<64806, 3, <<1588, 1581>>>>, <<64807, 3, <<1588, 1582>>>>, <<64808, 3, <<1588, 1605>>>>,
       <<64809, 3, <<1588, 1585>>>>, <<64810, 3, <<1587, 1585>>>>, <<64811, 3, <<1589, 1585>>>>,
       <<64812, 3, <<1590, 1585>>>>, <<64813, 3, <<1588, 1580>>>>, <<64814, 3, <<1588, 1581>>>>,
       <<64815, 3, <<1588, 1582>>>>, <<64816, 3, <<1588, 1605>>>>, <<64817, 3, <<1587, 1607>>>>,
       <<64818, 3, <<1588, 1607>>>>, <<64819, 3, <<1591, 1605>>>>, <<64820, 3, <<1587, 1580>>>>,
       <<64821, 3, <<1587, 1581>>>>, <<64822, 3, <<1587, 1582>>>>, <<64823, 3, <<1588, 1580>>>>,
       <<64824, 3, <<1588, 1581>>>>, <<64825, 3, <<1588, 1582>>>>, <<64826, 3, <<1591, 1605>>>>,
       <<64827, 3, <<1592, 1605>>>>, <<64828, 3, <<1575, 1611>>>>, <<64830, 0, <<>>>>,
       <<64848, 3, <<1578, 1580, 1605>>>>, <<64849, 3, <<1578, 1581, 1580>>>>,
       <<64851, 3, <<1578, 1581, 1605>>>>, <<64852, 3, <<1578, 1582, 1605>>>>,
       <<64853, 3, <<1578, 1605, 1580>>>>, <<64854, 3, <<1578, 1605, 1581>>>>,
       <<64855, 3, <<1578, 1605, 1582>>>>, <<64856, 3, <<1580, 1605, 1581>>>>,
       <<64858, 3, <<1581, 1605, 1610>>>>, <<64859, 3, <<1581, 1605, 1609>>>>,
       <<64860, 3, <<1587, 1581, 1580>>>>, <<64861, 3, <<1587, 1580, 1581>>>>,
       <<64862, 3, <<1587, 1580, 1609>>>>, <<64863, 3, <<1587, 1605, 1581>>>>,
       <<64865, 3, <<1587, 1605, 1580>>>>, <<64866, 3, <<1587, 1605, 1605>>>>,
       <<64868, 3, <<1589, 1581, 1581>>>>, <<64870, 3, <<1589, 1605, 1605>>>>,
       <<64871, 3, <<1588, 1581, 1605>>>>, <<64873, 3, <<1588, 1580, 1610>>>>,
       <<64874, 3, <<1588, 1605, 1582>>>>, <<64876, 3, <<1588, 1605, 1605>>>>,
       <<64878, 3, <<1590, 1581, 1609>>>>, <<64879, 3, <<1590, 1582, 1605>>>>,
       <<64881, 3, <<1591, 1605, 1581>>>>, <<64883, 3, <<1591, 1605, 1605>>>>,
       <<64884, 3, <<1591, 1605, 1610>>>>, <<64885, 3, <<1593, 1580, 1605>>>>,
       <<64886, 3, <<1593, 1605, 1605>>>>, <<64888, 3, <<1593, 1605, 1609>>>>,
       <<64889, 3, <<1594, 1605, 1605>>>>, <<64890, 3, <<1594, 1605, 1610>>>>,
       <<64891, 3, <<1594, 1605, 1609>>>>, <<64892, 3, <<1601, 1582, 1605>>>>,
       <<64894, 3, <<1602, 1605, 1581>>>>, <<64895, 3, <<1602, 1605, 1605>>>>,
       <<64896, 3, <<1604, 1581, 1605>>>>, <<64897, 3, <<1604, 1581, 1610>>>>,
       <<64898, 3, <<1604, 1581, 1609>>>>, <<64899, 3, <<1604, 1580, 1580>>>>,
       <<64901, 3, <<1604, 1582, 1605>>>>, <<64903, 3, <<1604, 1605, 1581>>>>,
       <<64905, 3, <<1605, 1581, 1580>>>>, <<64906, 3, <<1605, 1581, 1605>>>>,
       <<64907, 3, <<1605, 1581, 1610>>>>, <<64908, 3, <<1605, 1580, 1581>>>>,
       <<64909, 3, <<1605, 1580, 1605>>>>, <<64910, 3, <<1605, 1582, 1580>>>>,
       <<64911, 3, <<1605, 1582, 1605>>>>, <<64912, 1, <<>>>>, <<64914, 3, <<1605, 1580, 1582>>>>,
       <<64915, 3, <<1607, 1605, 1580>>>>, <<64916, 3, <<1607, 1605, 1605>>>>,
       <<64917, 3, <<1606, 1581, 1605>>>>, <<64918, 3, <<1606, 1581, 1609>>>>,
       <<64919, 3, <<1606, 1580, 1605>>>>, <<64921, 3, <<1606, 1580, 1609>>>>,
       <<64922, 3, <<1606, 1605, 1610>>>>, <<64923, 3, <<1606, 1605, 1609>>>>,
       <<64924, 3, <<1610, 1605, 1605>>>>, <<64926, 3, <<1576, 1582, 1610>>>>,
       <<64927, 3, <<1578, 1580, 1610>>>>, <<64928, 3, <<1578, 1580, 1609>>>>,
       <<64929, 3, <<1578, 1582, 1610>>>>, <<64930, 3, <<1578, 1582, 1609>>>>,
       <<64931, 3, <<1578, 1605, 1610>>>>, <<64932, 3, <<1578, 1605, 1609>>>>,
       <<64933, 3, <<1580, 1605, 1610>>>>, <<64934, 3, <<1580, 1581, 1609>>>>,
       <<64935, 3, <<1580, 1605, 1609>>>>, <<64936, 3, <<1587, 1582, 1609>>>>,
       <<64937, 3, <<1589, 1581, 1610>>>>, <<64938, 3, <<1588, 1581, 1610>>>>,
       <<64939, 3, <<1590, 1581, 1610>>>>, <<64940, 3, <<1604, 1580, 1610>>>>,
       <<64941, 3, <<1604, 1605, 1610>>>>, <<64942, 3, <<1610, 1581, 1610>>>>,
       <<64943, 3, <<1610, 1580, 1610>>>>, <<64944, 3, <<1610, 1605, 1610>>>>,
       <<64945, 3, <<1605, 1605, 1610>>>>, <<64946, 3, <<1602, 1605, 1610>>>>,
       <<64947, 3, <<1606, 1581, 1610>>>>, <<64948, 3, <<1602, 1605, 1581>>>>,
       <<64949, 3, <<1604, 1581, 1605>>>>, <<64950, 3, <<1593, 1605, 1610>>>>,
       <<64951, 3, <<1603, 1605, 1610>>>>, <<64952, 3, <<1606, 1580, 1581>>>>,
       <<64953, 3, <<1605, 1582, 1610>>>>, <<64954, 3, <<1604, 1580, 1605>>>>,
       <<64955, 3, <<1603, 1605, 1605>>>>, <<64956, 3, <<1604, 1580, 1605>>>>,
       <<64957, 3, <<1606, 1580, 1581>>>>, <<64958, 3, <<1580, 1581, 1610>>>>,
       <<64959, 3, <<1581, 1580, 1610>>>>, <<64960, 3, <<1605, 1580, 1610>>>>,
       <<64961, 3, <<1601, 1605, 1610>>>>, <<64962, 3, <<1576, 1581, 1610>>>>,
       <<64963, 3, <<1603, 1605, 1605>>>>, <<64964, 3, <<1593, 1580, 1605>>>>,
       <<64965, 3, <<1589, 1605, 1605>>>>, <<64966, 3, <<1587, 1582, 1610>>>>,
       <<64967, 3, <<1606, 1580, 1610>>>>, <<64968, 1, <<>>>>, <<64975, 0, <<>>>>,
       <<64976, 1, <<>>>>, <<65008, 3, <<1589, 1604, 1746>>>>, <<65009, 3, <<1602, 1604, 1746>>>>,
       <<65010, 3, <<1575, 1604, 1604, 1607>>>>, <<65011, 3, <<1575, 1603, 1576, 1585>>>>,
       <<65012, 3, <<1605, 1581, 1605, 1583>>>>, <<65013, 3, <<1589, 1604, 1593, 1605>>>>,
       <<65014, 3, <<1585, 1587, 1608, 1604>>>>, <<65015, 3, <<1593, 1604, 1610, 1607>>>>,
       <<65016, 3, <<1608, 1587, 1604, 1605>>>>, <<65017, 3, <<1589, 1604, 1609>>>>,
       <<65018, 3, <<1589, 1604, 1609, 32, 1575, 1604, 1604, 1607, 32, 1593, 1604, 1610, 1607, 32, 1608, 1587, 1604, 1605>>>>,
       <<65019, 3, <<1580, 1604, 32, 1580, 1604, 1575, 1604, 1607>>>>,
       <<65020, 3, <<1585, 1740, 1575, 1604>>>>, <<65021, 0, <<>>>>, <<65024, 2, <<>>>>,
       <<65040, 3, <<44>>>>, <<65041, 3, <<12289>>>>, <<65042, 1, <<>>>>, <<65043, 3, <<58>>>>,
       <<65044, 3, <<59>>>>, <<65045, 3, <<33>>>>, <<65046, 3, <<63>>>>, <<65047, 3, <<12310>>>>,
       <<65048, 3, <<12311>>>>, <<65049, 1, <<>>>>, <<65056, 0, <<>>>>, <<65072, 1, <<>>>>,
       <<65073, 3, <<8212>>>>, <<65074, 3, <<8211>>>>, <<65075, 3, <<95>>>>, <<65077, 3, <<40>>>>,
       <<65078, 3, <<41>>>>, <<65079, 3, <<123>>>>, <<65080, 3, <<125>>>>, <<65081, 3, <<12308>>>>,
       <<65082, 3, <<12309>>>>, <<65083, 3, <<12304>>>>, <<65084, 3, <<12305>>>>,
       <<65085, 3, <<12298>>>>, <<65086, 3, <<12299>>>>, <<65087, 3, <<12296>>>>,
       <<65088, 3, <<12297>>>>, <<65089, 3, <<12300>>>>, <<65090, 3, <<12301>>>>,
       <<65091, 3, <<12302>>>>, <<65092, 3, <<12303>>>>, <<65093, 0, <<>>>>, <<65095, 3, <<91>>>>,
       <<65096, 3, <<93>>>>, <<65097, 3, <<32, 773>>>>, <<65101, 3, <<95>>>>, <<65104, 3, <<44>>>>,
       <<65105, 3, <<12289>>>>, <<65106, 1, <<>>>>, <<65108, 3, <<59>>>>, <<65109, 3, <<58>>>>,
       <<65110, 3, <<63>>>>, <<65111, 3, <<33>>>>, <<65112, 3, <<8212>>>>, <<65113, 3, <<40>>>>,
       <<65114, 3, <<41>>>>, <<65115, 3, <<123>>>>, <<65116, 3, <<125>>>>, <<65117, 3, <<12308>>>>,
       <<65118, 3, <<12309>>>>, <<65119, 3, <<35>>>>, <<65120, 3, <<38>>>>, <<65121, 3, <<42>>>>,
       <<65122, 3, <<43>>>>, <<65123, 3, <<45>>>>, <<65124, 3, <<60>>>>, <<65125, 3, <<62>>>>,
       <<65126, 3, <<61>>>>, <<65127, 1, <<>>>>, <<65128, 3, <<92>>>>, <<65129, 3, <<36>>>>,
       <<65130, 3, <<37>>>>, <<65131, 3, <<64>>>>, <<65132, 1, <<>>>>, <<65136, 3, <<32, 1611>>>>,
       <<65137, 3, <<1600, 1611>>>>, <<65138, 3, <<32, 1612>>>>, <<65139, 0, <<>>>>,
       <<65140, 3, <<32, 1613>>>>, <<65141, 1, <<>>>>, <<65142, 3, <<32, 1614>>>>,
       <<65143, 3, <<1600, 1614>>>>, <<65144, 3, <<32, 1615>>>>, <<65145, 3, <<1600, 1615>>>>,
       <<65146, 3, <<32, 1616>>>>, <<65147, 3, <<1600, 1616>>>>, <<65148, 3, <<32, 1617>>>>,
       <<65149, 3, <<1600, 1617>>>>, <<65150, 3, <<32, 1618>>>>, <<65151, 3, <<1600, 1618>>>>,
       <<65152, 3, <<1569>>>>, <<65153, 3, <<1570>>>>, <<65155, 3, <<1571>>>>,
       <<65157, 3, <<1572>>>>, <<65159, 3, <<1573>>>>, <<65161, 3, <<1574>>>>,
       <<65165, 3, <<1575>>>>, <<65167, 3, <<1576>>>>, <<65171, 3, <<1577>>>>,
       <<65173, 3, <<1578>>>>, <<65177, 3, <<1579>>>>, <<65181, 3, <<1580>>>>,
       <<65185, 3, <<1581>>>>, <<65189, 3, <<1582>>>>, <<65193, 3, <<1583>>>>,
       <<65195, 3, <<1584>>>>, <<65197, 3, <<1585>>>>, <<65199, 3, <<1586>>>>,
       <<65201, 3, <<1587>>>>, <<65205, 3, <<1588>>>>, <<65209, 3, <<1589>>>>,
       <<65213, 3, <<1590>>>>, <<65217, 3, <<1591>>>>, <<65221, 3, <<1592>>>>,
       <<65225, 3, <<1593>>>>, <<65229, 3, <<1594>>>>, <<65233, 3, <<1601>>>>,
       <<65237, 3, <<1602>>>>, <<65241, 3, <<1603>>>>, <<65245, 3, <<1604>>>>,
       <<65249, 3, <<1605>>>>, <<65253, 3, <<1606>>>>, <<65257, 3, <<1607>>>>,
       <<65261, 3, <<1608>>>>, <<65263, 3, <<1609>>>>, <<65265, 3, <<1610>>>>,
       <<65269, 3, <<1604, 1570>>>>, <<65271, 3, <<1604, 1571>>>>, <<65273, 3, <<1604, 1573>>>>,
       <<65275, 3, <<1604, 1575>>>>, <<65277, 1, <<>>>>, <<65279, 2, <<>>>>, <<65280, 1, <<>>>>,
       <<65281, 3, <<33>>>>, <<65282, 3, <<34>>>>, <<65283, 3, <<35>>>>, <<65284, 3, <<36>>>>,
       <<65285, 3, <<37>>>>, <<65286, 3, <<38>>>>, <<65287, 3, <<39>>>>, <<65288, 3, <<40>>>>,
       <<65289, 3, <<41>>>>, <<65290, 3, <<42>>>>, <<65291, 3, <<43>>>>, <<65292, 3, <<44>>>>,
       <<65293, 3, <<45>>>>, <<65294, 3, <<46>>>>, <<65295, 3, <<47>>>>, <<65296, 3, <<48>>>>,
       <<65297, 3, <<49>>>>, <<65298, 3, <<50>>>>, <<65299, 3, <<51>>>>, <<65300, 3, <<52>>>>,
       <<65301, 3, <<53>>>>, <<65302, 3, <<54>>>>, <<65303, 3, <<55>>>>, <<65304, 3, <<56>>>>,
       <<65305, 3, <<57>>>>, <<65306, 3, <<58>>>>, <<65307, 3, <<59>>>>, <<65308, 3, <<60>>>>,
       <<65309, 3, <<61>>>>, <<65310, 3, <<62>>>>, <<65311, 3, <<63>>>>, <<65312, 3, <<64>>>>,
       <<65313, 3, <<97>>>>, <<65314, 3, <<98>>>>, <<65315, 3, <<99>>>>, <<65316, 3, <<100>>>>,
       <<65317, 3, <<101>>>>, <<65318, 3, <<102>>>>, <<65319, 3, <<103>>>>, <<65320, 3, <<104>>>>,
       <<65321, 3, <<105>>>>, <<65322, 3, <<106>>>>, <<65323, 3, <<107>>>>, <<65324, 3, <<108>>>>,
       <<65325, 3, <<109>>>>, <<65326, 3, <<110>>>>, <<65327, 3, <<111>>>>, <<65328, 3, <<112>>>>,
       <<65329, 3, <<113>>>>, <<65330, 3, <<114>>>>, <<65331, 3, <<115>>>>, <<65332, 3, <<116>>>>,
       <<65333, 3, <<117>>>>, <<65334, 3, <<118>>>>, <<65335, 3, <<119>>>>, <<65336, 3, <<120>>>>,
       <<65337, 3, <<121>>>>, <<65338, 3, <<122>>>>, <<65339, 3, <<91>>>>, <<65340, 3, <<92>>>>,
       <<65341, 3, <<93>>>>, <<65342, 3, <<94>>>>, <<65343, 3, <<95>>>>, <<65344, 3, <<96>>>>,
       <<65345, 3, <<97>>>>, <<65346, 3, <<98>>>>, <<65347, 3, <<99>>>>, <<65348, 3, <<100>>>>,
       <<65349, 3, <<101>>>>, <<65350, 3, <<102>>>>, <<65351, 3, <<103>>>>, <<65352, 3, <<104>>>>,
       <<65353, 3, <<105>>>>, <<65354, 3, <<106>>>>, <<65355, 3, <<107>>>>, <<65356, 3, <<108>>>>,
       <<65357, 3, <<109>>>>, <<65358, 3, <<110>>>>, <<65359, 3, <<111>>>>, <<65360, 3, <<112>>>>,
       <<65361, 3, <<113>>>>, <<65362, 3, <<114>>>>, <<65363, 3, <<115>>>>, <<65364, 3, <<116>>>>,
       <<65365, 3, <<117>>>>, <<65366, 3, <<118>>>>, <<65367, 3, <<119>>>>, <<65368, 3, <<120>>>>,
       <<65369, 3, <<121>>>>, <<65370, 3, <<122>>>>, <<65371, 3, <<123>>>>, <<65372, 3, <<124>>>>,
       <<65373, 3, <<125>>>>, <<65374, 3, <<126>>>>, <<65375, 3, <<10629>>>>,
       <<65376, 3, <<10630>>>>, <<65377, 3, <<46>>>>, <<65378, 3, <<12300>>>>,
       <<65379, 3, <<12301>>>>, <<65380, 3, <<12289>>>>, <<65381, 3, <<12539>>>>,
       <<65382, 3, <<12530>>>>, <<65383, 3, <<12449>>>>, <<65384, 3, <<12451>>>>,
       <<65385, 3, <<12453>>>>, <<65386, 3, <<12455>>>>, <<65387, 3, <<12457>>>>,
       <<65388, 3, <<12515>>>>, <<65389, 3, <<12517>>>>, <<65390, 3, <<12519>>>>,
       <<65391, 3, <<12483>>>>, <<65392, 3, <<12540>>>>, <<65393, 3, <<12450>>>>,
       <<65394, 3, <<12452>>>>, <<65395, 3, <<12454>>>>, <<65396, 3, <<12456>>>>,
       <<65397, 3, <<12458>>>>, <<65398, 3, <<12459>>>>, <<65399, 3, <<12461>>>>,
       <<65400, 3, <<12463>>>>, <<65401, 3, <<12465>>>>, <<65402, 3, <<12467>>>>,
       <<65403, 3, <<12469>>>>, <<65404, 3, <<12471>>>>, <<65405, 3, <<12473>>>>,
       <<65406, 3, <<12475>>>>, <<65407, 3, <<12477>>>>, <<65408, 3, <<12479>>>>,
       <<65409, 3, <<12481>>>>, <<65410, 3, <<12484>>>>, <<65411, 3, <<12486>>>>,
       <<65412, 3, <<12488>>>>, <<65413, 3, <<12490>>>>, <<65414, 3, <<12491>>>>,
       <<65415, 3, <<12492>>>>, <<65416, 3, <<12493>>>>, <<65417, 3, <<12494>>>>,
       <<65418, 3, <<12495>>>>, <<65419, 3, <<12498>>>>, <<65420, 3, <<12501>>>>,
       <<65421, 3, <<12504>>>>, <<65422, 3, <<12507>>>>, <<65423, 3, <<12510>>>>,
       <<65424, 3, <<12511>>>>, <<65425, 3, <<12512>>>>, <<65426, 3, <<12513>>>>,
       <<65427, 3, <<12514>>>>, <<65428, 3, <<12516>>>>, <<65429, 3, <<12518>>>>,
       <<65430, 3, <<12520>>>>, <<65431, 3, <<12521>>>>, <<65432, 3, <<12522>>>>,
       <<65433, 3, <<12523>>>>, <<65434, 3, <<12524>>>>, <<65435, 3, <<12525>>>>,
       <<65436, 3, <<12527>>>>, <<65437, 3, <<12531>>>>, <<65438, 3, <<12441>>>>,
       <<65439, 3, <<12442>>>>, <<65440, 1, <<>>>>, <<65441, 3, <<4352>>>>, <<65442, 3, <<4353>>>>,
       <<65443, 3, <<4522>>>>, <<65444, 3, <<4354>>>>, <<65445, 3, <<4524>>>>,
       <<65446, 3, <<4525>>>>, <<65447, 3, <<4355>>>>, <<65448, 3, <<4356>>>>,
       <<65449, 3, <<4357>>>>, <<65450, 3, <<4528>>>>, <<65451, 3, <<4529>>>>,
       <<65452, 3, <<4530>>>>, <<65453, 3, <<4531>>>>, <<65454, 3, <<4532>>>>,
       <<65455, 3, <<4533>>>>, <<65456, 3, <<4378>>>>, <<65457, 3, <<4358>>>>,
       <<65458, 3, <<4359>>>>, <<65459, 3, <<4360>>>>, <<65460, 3, <<4385>>>>,
       <<65461, 3, <<4361>>>>, <<65462, 3, <<4362>>>>, <<65463, 3, <<4363>>>>,
       <<65464, 3, <<4364>>>>, <<65465, 3, <<4365>>>>, <<65466, 3, <<4366>>>>,
       <<65467, 3, <<4367>>>>, <<65468, 3, <<4368>>>>, <<65469, 3, <<4369>>>>,
       <<65470, 3, <<4370>>>>, <<65471, 1, <<>>>>, <<65474, 3, <<4449>>>>, <<65475, 3, <<4450>>>>,
       <<65476, 3, <<4451>>>>, <<65477, 3, <<4452>>>>, <<65478, 3, <<4453>>>>,
       <<65479, 3, <<4454>>>>, <<65480, 1, <<>>>>, <<65482, 3, <<4455>>>>, <<65483, 3, <<4456>>>>,
       <<65484, 3, <<4457>>>>, <<65485, 3, <<4458>>>>, <<65486, 3, <<4459>>>>,
       <<65487, 3, <<4460>>>>, <<65488, 1, <<>>>>, <<65490, 3, <<4461>>>>, <<65491, 3, <<4462>>>>,
       <<65492, 3, <<4463>>>>, <<65493, 3, <<4464>>>>, <<65494, 3, <<4465>>>>,
       <<65495, 3, <<4466>>>>, <<65496, 1, <<>>>>, <<65498, 3, <<4467>>>>, <<65499, 3, <<4468>>>>,
       <<65500, 3, <<4469>>>>, <<65501, 1, <<>>>>, <<65504, 3, <<162>>>>, <<65505, 3, <<163>>>>,
       <<65506, 3, <<172>>>>, <<65507, 3, <<32, 772>>>>, <<65508, 3, <<166>>>>,
       <<65509, 3, <<165>>>>, <<65510, 3, <<8361>>>>, <<65511, 1, <<>>>>, <<65512, 3, <<9474>>>>,
       <<65513, 3, <<8592>>>>, <<65514, 3, <<8593>>>>, <<65515, 3, <<8594>>>>,
       <<65516, 3, <<8595>>>>, <<65517, 3, <<9632>>>>, <<65518, 3, <<9675>>>>, <<65519, 1, <<>>>>,
       <<65536, 0, <<>>>>, <<65548, 1, <<>>>>, <<65549, 0, <<>>>>, <<65575, 1, <<>>>>,
       <<65576, 0, <<>>>>, <<65595, 1, <<>>>>, <<65596, 0, <<>>>>, <<65598, 1, <<>>>>,
       <<65599, 0, <<>>>>, <<65614, 1, <<>>>>, <<65616, 0, <<>>>>, <<65630, 1, <<>>>>,
       <<65664, 0, <<>>>>, <<65787, 1, <<>>>>, <<65792, 0, <<>>>>, <<65795, 1, <<>>>>,
       <<65799, 0, <<>>>>, <<65844, 1, <<>>>>, <<65847, 0, <<>>>>, <<65935, 1, <<>>>>,
       <<65936, 0, <<>>>>, <<65949, 1, <<>>>>, <<65952, 0, <<>>>>, <<65953, 1, <<>>>>,
       <<66000, 0, <<>>>>, <<66046, 1, <<>>>>, <<66176, 0, <<>>>>, <<66205, 1, <<>>>>,
       <<66208, 0, <<>>>>, <<66257, 1, <<>>>>, <<66272, 0, <<>>>>, <<66300, 1, <<>>>>,
       <<66304, 0, <<>>>>, <<66340, 1, <<>>>>, <<66349, 0, <<>>>>, <<66379, 1, <<>>>>,
       <<66384, 0, <<>>>>, <<66427, 1, <<>>>>, <<66432, 0, <<>>>>, <<66462, 1, <<>>>>,
       <<66463, 0, <<>>>>, <<66500, 1, <<>>>>, <<66504, 0, <<>>>>, <<66518, 1, <<>>>>,
       <<66560, 3, <<66600>>>>, <<66561, 3, <<66601>>>>, <<66562, 3, <<66602>>>>,
       <<66563, 3, <<66603>>>>, <<66564, 3, <<66604>>>>, <<66565, 3, <<66605>>>>,
       <<66566, 3, <<66606>>>>, <<66567, 3, <<66607>>>>, <<66568, 3, <<66608>>>>,
       <<66569, 3, <<66609>>>>, <<66570, 3, <<66610>>>>, <<66571, 3, <<66611>>>>,
       <<66572, 3, <<66612>>>>, <<66573, 3, <<66613>>>>, <<66574, 3, <<66614>>>>,
       <<66575, 3, <<66615>>>>, <<66576, 3, <<66616>>>>, <<66577, 3, <<66617>>>>,
       <<66578, 3, <<66618>>>>, <<66579, 3, <<66619>>>>, <<66580, 3, <<66620>>>>,
       <<66581, 3, <<66621>>>>, <<66582, 3, <<66622>>>>, <<66583, 3, <<66623>>>>,
       <<66584, 3, <<66624>>>>, <<66585, 3, <<66625>>>>, <<66586, 3, <<66626>>>>,
       <<66587, 3, <<66627>>>>, <<66588, 3, <<66628>>>>, <<66589, 3, <<66629>>>>,
       <<66590, 3, <<66630>>>>, <<66591, 3, <<66631>>>>, <<66592, 3, <<66632>>>>,
       <<66593, 3, <<66633>>>>, <<66594, 3, <<66634>>>>, <<66595, 3, <<66635>>>>,
       <<66596, 3, <<66636>>>>, <<66597, 3, <<66637>>>>, <<66598, 3, <<66638>>>>,
       <<66599, 3, <<66639>>>>, <<66600, 0, <<>>>>, <<66718, 1, <<>>>>, <<66720, 0, <<>>>>,
       <<66730, 1, <<>>>>, <<66736, 3, <<66776>>>>, <<66737, 3, <<66777>>>>,
       <<66738, 3, <<66778>>>>, <<66739, 3, <<66779>>>>, <<66740, 3, <<66780>>>>,
       <<66741, 3, <<66781>>>>, <<66742, 3, <<66782>>>>, <<66743, 3, <<66783>>>>,
       <<66744, 3, <<66784>>>>, <<66745, 3, <<66785>>>>, <<66746, 3, <<66786>>>>,
       <<66747, 3, <<66787>>>>, <<66748, 3, <<66788>>>>, <<66749, 3, <<66789>>>>,
       <<66750, 3, <<66790>>>>, <<66751, 3, <<66791>>>>, <<66752, 3, <<66792>>>>,
       <<66753, 3, <<66793>>>>, <<66754, 3, <<66794>>>>, <<66755, 3, <<66795>>>>,
       <<66756, 3, <<66796>>>>, <<66757, 3, <<66797>>>>, <<66758, 3, <<66798>>>>,
       <<66759, 3, <<66799>>>>, <<66760, 3, <<66800>>>>, <<66761, 3, <<66801>>>>,
       <<66762, 3, <<66802>>>>, <<66763, 3, <<66803>>>>, <<66764, 3, <<66804>>>>,
       <<66765, 3, <<66805>>>>, <<66766, 3, <<66806>>>>, <<66767, 3, <<66807>>>>,
       <<66768, 3, <<66808>>>>, <<66769, 3, <<66809>>>>, <<66770, 3, <<66810>>>>,
       <<66771, 3, <<66811>>>>, <<66772, 1, <<>>>>, <<66776, 0, <<>>>>, <<66812, 1, <<>>>>,
       <<66816, 0, <<>>>>, <<66856, 1, <<>>>>, <<66864, 0, <<>>>>, <<66916, 1, <<>>>>,
       <<66927, 0, <<>>>>, <<66928, 3, <<66967>>>>, <<66929, 3, <<66968>>>>,
       <<66930, 3, <<66969>>>>, <<66931, 3, <<66970>>>>, <<66932, 3, <<66971>>>>,
       <<66933, 3, <<66972>>>>, <<66934, 3, <<66973>>>>, <<66935, 3, <<66974>>>>,
       <<66936, 3, <<66975>>>>, <<66937, 3, <<66976>>>>, <<66938, 3, <<66977>>>>,
       <<66939, 1, <<>>>>, <<66940, 3, <<66979>>>>, <<66941, 3, <<66980>>>>,
       <<66942, 3, <<66981>>>>, <<66943, 3, <<66982>>>>, <<66944, 3, <<66983>>>>,
       <<66945, 3, <<66984>>>>, <<66946, 3, <<66985>>>>, <<66947, 3, <<66986>>>>,
       <<66948, 3, <<66987>>>>, <<66949, 3, <<66988>>>>, <<66950, 3, <<66989>>>>,
       <<66951, 3, <<66990>>>>, <<66952, 3, <<66991>>>>, <<66953, 3, <<66992>>>>,
       <<66954, 3, <<66993>>>>, <<66955, 1, <<>>>>, <<66956, 3, <<66995>>>>,
       <<66957, 3, <<66996>>>>, <<66958, 3, <<66997>>>>, <<66959, 3, <<66998>>>>,
       <<66960, 3, <<66999>>>>, <<66961, 3, <<67000>>>>, <<66962, 3, <<67001>>>>,
       <<66963, 1, <<>>>>, <<66964, 3, <<67003>>>>, <<66965, 3, <<67004>>>>, <<66966, 1, <<>>>>,
       <<66967, 0, <<>>>>, <<66978, 1, <<>>>>, <<66979, 0, <<>>>>, <<66994, 1, <<>>>>,
       <<66995, 0, <<>>>>, <<67002, 1, <<>>>>, <<67003, 0, <<>>>>, <<67005, 1, <<>>>>,
       <<67072, 0, <<>>>>, <<67383, 1, <<>>>>, <<67392, 0, <<>>>>, <<67414, 1, <<>>>>,
       <<67424, 0, <<>>>>, <<67432, 1, <<>>>>, <<67456, 0, <<>>>>, <<67457, 3, <<720>>>>,
       <<67458, 3, <<721>>>>, <<67459, 3, <<230>>>>, <<67460, 3, <<665>>>>, <<67461, 3, <<595>>>>,
       <<67462, 1, <<>>>>, <<67463, 3, <<675>>>>, <<67464, 3, <<43878>>>>, <<67465, 3, <<677>>>>,
       <<67466, 3, <<676>>>>, <<67467, 3, <<598>>>>, <<67468, 3, <<599>>>>, <<67469, 3, <<7569>>>>,
       <<67470, 3, <<600>>>>, <<67471, 3, <<606>>>>, <<67472, 3, <<681>>>>, <<67473, 3, <<612>>>>,
       <<67474, 3, <<610>>>>, <<67475, 3, <<608>>>>, <<67476, 3, <<667>>>>, <<67477, 3, <<295>>>>,
       <<67478, 3, <<668>>>>, <<67479, 3, <<615>>>>, <<67480, 3, <<644>>>>, <<67481, 3, <<682>>>>,
       <<67482, 3, <<683>>>>, <<67483, 3, <<620>>>>, <<67484, 3, <<122628>>>>,
       <<67485, 3, <<42894>>>>, <<67486, 3, <<622>>>>, <<67487, 3, <<122629>>>>,
       <<67488, 3, <<654>>>>, <<67489, 3, <<122630>>>>, <<67490, 3, <<248>>>>,
       <<67491, 3, <<630>>>>, <<67492, 3, <<631>>>>, <<67493, 3, <<113>>>>, <<67494, 3, <<634>>>>,
       <<67495, 3, <<122632>>>>, <<67496, 3, <<637>>>>, <<67497, 3, <<638>>>>,
       <<67498, 3, <<640>>>>, <<67499, 3, <<680>>>>, <<67500, 3, <<678>>>>,
       <<67501, 3, <<43879>>>>, <<67502, 3, <<679>>>>, <<67503, 3, <<648>>>>,
       <<67504, 3, <<11377>>>>, <<67505, 1, <<>>>>, <<67506, 3, <<655>>>>, <<67507, 3, <<673>>>>,
       <<67508, 3, <<674>>>>, <<67509, 3, <<664>>>>, <<67510, 3, <<448>>>>, <<67511, 3, <<449>>>>,
       <<67512, 3, <<450>>>>, <<67513, 3, <<122634>>>>, <<67514, 3, <<122654>>>>,
       <<67515, 1, <<>>>>, <<67584, 0, <<>>>>, <<67590, 1, <<>>>>, <<67592, 0, <<>>>>,
       <<67593, 1, <<>>>>, <<67594, 0, <<>>>>, <<67638, 1, <<>>>>, <<67639, 0, <<>>>>,
       <<67641, 1, <<>>>>, <<67644, 0, <<>>>>, <<67645, 1, <<>>>>, <<67647, 0, <<>>>>,
       <<67670, 1, <<>>>>, <<67671, 0, <<>>>>, <<67743, 1, <<>>>>, <<67751, 0, <<>>>>,
       <<67760, 1, <<>>>>, <<67808, 0, <<>>>>, <<67827, 1, <<>>>>, <<67828, 0, <<>>>>,
       <<67830, 1, <<>>>>, <<67835, 0, <<>>>>, <<67868, 1, <<>>>>, <<67871, 0, <<>>>>,
       <<67898, 1, <<>>>>, <<67903, 0, <<>>>>, <<67904, 1, <<>>>>, <<67968, 0, <<>>>>,
       <<68024, 1, <<>>>>, <<68028, 0, <<>>>>, <<68048, 1, <<>>>>, <<68050, 0, <<>>>>,
       <<68100, 1, <<>>>>, <<68101, 0, <<>>>>, <<68103, 1, <<>>>>, <<68108, 0, <<>>>>,
       <<68116, 1, <<>>>>, <<68117, 0, <<>>>>, <<68120, 1, <<>>>>, <<68121, 0, <<>>>>,
       <<68150, 1, <<>>>>, <<68152, 0, <<>>>>, <<68155, 1, <<>>>>, <<68159, 0, <<>>>>,
       <<68169, 1, <<>>>>, <<68176, 0, <<>>>>, <<68185, 1, <<>>>>, <<68192, 0, <<>>>>,
       <<68256, 1, <<>>>>, <<68288, 0, <<>>>>, <<68327, 1, <<>>>>, <<68331, 0, <<>>>>,
       <<68343, 1, <<>>>>, <<68352, 0, <<>>>>, <<68406, 1, <<>>>>, <<68409, 0, <<>>>>,
       <<68438, 1, <<>>>>, <<68440, 0, <<>>>>, <<68467, 1, <<>>>>, <<68472, 0, <<>>>>,
       <<68498, 1, <<>>>>, <<68505, 0, <<>>>>, <<68509, 1, <<>>>>, <<68521, 0, <<>>>>,
       <<68528, 1, <<>>>>, <<68608, 0, <<>>>>, <<68681, 1, <<>>>>, <<68736, 3, <<68800>>>>,
       <<68737, 3, <<68801>>>>, <<68738, 3, <<68802>>>>, <<68739, 3, <<68803>>>>,
       <<68740, 3, <<68804>>>>, <<68741, 3, <<68805>>>>, <<68742, 3, <<68806>>>>,
       <<68743, 3, <<68807>>>>, <<68744, 3, <<68808>>>>, <<68745, 3, <<68809>>>>,
       <<68746, 3, <<68810>>>>, <<68747, 3, <<68811>>>>, <<68748, 3, <<68812>>>>,
       <<68749, 3, <<68813>>>>, <<68750, 3, <<68814>>>>, <<68751, 3, <<68815>>>>,
       <<68752, 3, <<68816>>>>, <<68753, 3, <<68817>>>>, <<68754, 3, <<68818>>>>,
       <<68755, 3, <<68819>>>>, <<68756, 3, <<68820>>>>, <<68757, 3, <<68821>>>>,
       <<68758, 3, <<68822>>>>, <<68759, 3, <<68823>>>>, <<68760, 3, <<68824>>>>,
       <<68761, 3, <<68825>>>>, <<68762, 3, <<68826>>>>, <<68763, 3, <<68827>>>>,
       <<68764, 3, <<68828>>>>, <<68765, 3, <<68829>>>>, <<68766, 3, <<68830>>>>,
       <<68767, 3, <<68831>>>>, <<68768, 3, <<68832>>>>, <<68769, 3, <<68833>>>>,
       <<68770, 3, <<68834>>>>, <<68771, 3, <<68835>>>>, <<68772, 3, <<68836>>>>,
       <<68773, 3, <<68837>>>>, <<68774, 3, <<68838>>>>, <<68775, 3, <<68839>>>>,
       <<68776, 3, <<68840>>>>, <<68777, 3, <<68841>>>>, <<68778, 3, <<68842>>>>,
       <<68779, 3, <<68843>>>>, <<68780, 3, <<68844>>>>, <<68781, 3, <<68845>>>>,
       <<68782, 3, <<68846>>>>, <<68783, 3, <<68847>>>>, <<68784, 3, <<68848>>>>,
       <<68785, 3, <<68849>>>>, <<68786, 3, <<68850>>>>, <<68787, 1, <<>>>>, <<68800, 0, <<>>>>,
       <<68851, 1, <<>>>>, <<68858, 0, <<>>>>, <<68904, 1, <<>>>>, <<68912, 0, <<>>>>,
       <<68922, 1, <<>>>>, <<69216, 0, <<>>>>, <<69247, 1, <<>>>>, <<69248, 0, <<>>>>,
       <<69290, 1, <<>>>>, <<69291, 0, <<>>>>, <<69294, 1, <<>>>>, <<69296, 0, <<>>>>,
       <<69298, 1, <<>>>>, <<69373, 0, <<>>>>, <<69416, 1, <<>>>>, <<69424, 0, <<>>>>,
       <<69466, 1, <<>>>>, <<69488, 0, <<>>>>, <<69514, 1, <<>>>>, <<69552, 0, <<>>>>,
       <<69580, 1, <<>>>>, <<69600, 0, <<>>>>, <<69623, 1, <<>>>>, <<69632, 0, <<>>>>,
       <<69710, 1, <<>>>>, <<69714, 0, <<>>>>, <<69750, 1, <<>>>>, <<69759, 0, <<>>>>,
       <<69821, 1, <<>>>>, <<69822, 0, <<>>>>, <<69827, 1, <<>>>>, <<69840, 0, <<>>>>,
       <<69865, 1, <<>>>>, <<69872, 0, <<>>>>, <<69882, 1, <<>>>>, <<69888, 0, <<>>>>,
       <<69941, 1, <<>>>>, <<69942, 0, <<>>>>, <<69960, 1, <<>>>>, <<69968, 0, <<>>>>,
       <<70007, 1, <<>>>>, <<70016, 0, <<>>>>, <<70112, 1, <<>>>>, <<70113, 0, <<>>>>,
       <<70133, 1, <<>>>>, <<70144, 0, <<>>>>, <<70162, 1, <<>>>>, <<70163, 0, <<>>>>,
       <<70210, 1, <<>>>>, <<70272, 0, <<>>>>, <<70279, 1, <<>>>>, <<70280, 0, <<>>>>,
       <<70281, 1, <<>>>>, <<70282, 0, <<>>>>, <<70286, 1, <<>>>>, <<70287, 0, <<>>>>,
       <<70302, 1, <<>>>>, <<70303, 0, <<>>>>, <<70314, 1, <<>>>>, <<70320, 0, <<>>>>,
       <<70379, 1, <<>>>>, <<70384, 0, <<>>>>, <<70394, 1, <<>>>>, <<70400, 0, <<>>>>,
       <<70404, 1, <<>>>>, <<70405, 0, <<>>>>, <<70413, 1, <<>>>>, <<70415, 0, <<>>>>,
       <<70417, 1, <<>>>>, <<70419, 0, <<>>>>, <<70441, 1, <<>>>>, <<70442, 0, <<>>>>,
       <<70449, 1, <<>>>>, <<70450, 0, <<>>>>, <<70452, 1, <<>>>>, <<70453, 0, <<>>>>,
       <<70458, 1, <<>>>>, <<70459, 0, <<>>>>, <<70469, 1, <<>>>>, <<70471, 0, <<>>>>,
       <<70473, 1, <<>>>>, <<70475, 0, <<>>>>, <<70478, 1, <<>>>>, <<70480, 0, <<>>>>,
       <<70481, 1, <<>>>>, <<70487, 0, <<>>>>, <<70488, 1, <<>>>>, <<70493, 0, <<>>>>,
       <<70500, 1, <<>>>>, <<70502, 0, <<>>>>, <<70509, 1, <<>>>>, <<70512, 0, <<>>>>,
       <<70517, 1, <<>>>>, <<70656, 0, <<>>>>, <<70748, 1, <<>>>>, <<70749, 0, <<>>>>,
       <<70754, 1, <<>>>>, <<70784, 0, <<>>>>, <<70856, 1, <<>>>>, <<70864, 0, <<>>>>,
       <<70874, 1, <<>>>>, <<71040, 0, <<>>>>, <<71094, 1, <<>>>>, <<71096, 0, <<>>>>,
       <<71134, 1, <<>>>>, <<71168, 0, <<>>>>, <<71237, 1, <<>>>>, <<71248, 0, <<>>>>,
       <<71258, 1, <<>>>>, <<71264, 0, <<>>>>, <<71277, 1, <<>>>>, <<71296, 0, <<>>>>,
       <<71354, 1, <<>>>>, <<71360, 0, <<>>>>, <<71370, 1, <<>>>>, <<71424, 0, <<>>>>,
       <<71451, 1, <<>>>>, <<71453, 0, <<>>>>, <<71468, 1, <<>>>>, <<71472, 0, <<>>>>,
       <<71495, 1, <<>>>>, <<71680, 0, <<>>>>, <<71740, 1, <<>>>>, <<71840, 3, <<71872>>>>,
       <<71841, 3, <<71873>>>>, <<71842, 3, <<71874>>>>, <<71843, 3, <<71875>>>>,
       <<71844, 3, <<71876>>>>, <<71845, 3, <<71877>>>>, <<71846, 3, <<71878>>>>,
       <<71847, 3, <<71879>>>>, <<71848, 3, <<71880>>>>, <<71849, 3, <<71881>>>>,
       <<71850, 3, <<71882>>>>, <<71851, 3, <<71883>>>>, <<71852, 3, <<71884>>>>,
       <<71853, 3, <<71885>>>>, <<71854, 3, <<71886>>>>, <<71855, 3, <<71887>>>>,
       <<71856, 3, <<71888>>>>, <<71857, 3, <<71889>>>>, <<71858, 3, <<71890>>>>,
       <<71859, 3, <<71891>>>>, <<71860, 3, <<71892>>>>, <<71861, 3, <<71893>>>>,
       <<71862, 3, <<71894>>>>, <<71863, 3, <<71895>>>>, <<71864, 3, <<71896>>>>,
       <<71865, 3, <<71897>>>>, <<71866, 3, <<71898>>>>, <<71867, 3, <<71899>>>>,
       <<71868, 3, <<71900>>>>, <<71869, 3, <<71901>>>>, <<71870, 3, <<71902>>>>,
       <<71871, 3, <<71903>>>>, <<71872, 0, <<>>>>, <<71923, 1, <<>>>>, <<71935, 0, <<>>>>,
       <<71943, 1, <<>>>>, <<71945, 0, <<>>>>, <<71946, 1, <<>>>>, <<71948, 0, <<>>>>,
       <<71956, 1, <<>>>>, <<71957, 0, <<>>>>, <<71959, 1, <<>>>>, <<71960, 0, <<>>>>,
       <<71990, 1, <<>>>>, <<71991, 0, <<>>>>, <<71993, 1, <<>>>>, <<71995, 0, <<>>>>,
       <<72007, 1, <<>>>>, <<72016, 0, <<>>>>, <<72026, 1, <<>>>>, <<72096, 0, <<>>>>,
       <<72104, 1, <<>>>>, <<72106, 0, <<>>>>, <<72152, 1, <<>>>>, <<72154, 0, <<>>>>,
       <<72165, 1, <<>>>>, <<72192, 0, <<>>>>, <<72264, 1, <<>>>>, <<72272, 0, <<>>>>,
       <<72355, 1, <<>>>>, <<72368, 0, <<>>>>, <<72441, 1, <<>>>>, <<72448, 0, <<>>>>,
       <<72458, 1, <<>>>>, <<72704, 0, <<>>>>, <<72713, 1, <<>>>>, <<72714, 0, <<>>>>,
       <<72759, 1, <<>>>>, <<72760, 0, <<>>>>, <<72774, 1, <<>>>>, <<72784, 0, <<>>>>,
       <<72813, 1, <<>>>>, <<72816, 0, <<>>>>, <<72848, 1, <<>>>>, <<72850, 0, <<>>>>,
       <<72872, 1, <<>>>>, <<72873, 0, <<>>>>, <<72887, 1, <<>>>>, <<72960, 0, <<>>>>,
       <<72967, 1, <<>>>>, <<72968, 0, <<>>>>, <<72970, 1, <<>>>>, <<72971, 0, <<>>>>,
       <<73015, 1, <<>>>>, <<73018, 0, <<>>>>, <<73019, 1, <<>>>>, <<73020, 0, <<>>>>,
       <<73022, 1, <<>>>>, <<73023, 0, <<>>>>, <<73032, 1, <<>>>>, <<73040, 0, <<>>>>,
       <<73050, 1, <<>>>>, <<73056, 0, <<>>>>, <<73062, 1, <<>>>>, <<73063, 0, <<>>>>,
       <<73065, 1, <<>>>>, <<73066, 0, <<>>>>, <<73103, 1, <<>>>>, <<73104, 0, <<>>>>,
       <<73106, 1, <<>>>>, <<73107, 0, <<>>>>, <<73113, 1, <<>>>>, <<73120, 0, <<>>>>,
       <<73130, 1, <<>>>>, <<73440, 0, <<>>>>, <<73465, 1, <<>>>>, <<73472, 0, <<>>>>,
       <<73489, 1, <<>>>>, <<73490, 0, <<>>>>, <<73531, 1, <<>>>>, <<73534, 0, <<>>>>,
       <<73562, 1, <<>>>>, <<73648, 0, <<>>>>, <<73649, 1, <<>>>>, <<73664, 0, <<>>>>,
       <<73714, 1, <<>>>>, <<73727, 0, <<>>>>, <<74650, 1, <<>>>>, <<74752, 0, <<>>>>,
       <<74863, 1, <<>>>>, <<74864, 0, <<>>>>, <<74869, 1, <<>>>>, <<74880, 0, <<>>>>,
       <<75076, 1, <<>>>>, <<77712, 0, <<>>>>, <<77811, 1, <<>>>>, <<77824, 0, <<>>>>,
       <<78896, 1, <<>>>>, <<78912, 0, <<>>>>, <<78934, 1, <<>>>>, <<82944, 0, <<>>>>,
       <<83527, 1, <<>>>>, <<92160, 0, <<>>>>, <<92729, 1, <<>>>>, <<92736, 0, <<>>>>,
       <<92767, 1, <<>>>>, <<92768, 0, <<>>>>, <<92778, 1, <<>>>>, <<92782, 0, <<>>>>,
       <<92863, 1, <<>>>>, <<92864, 0, <<>>>>, <<92874, 1, <<>>>>, <<92880, 0, <<>>>>,
       <<92910, 1, <<>>>>, <<92912, 0, <<>>>>, <<92918, 1, <<>>>>, <<92928, 0, <<>>>>,
       <<92998, 1, <<>>>>, <<93008, 0, <<>>>>, <<93018, 1, <<>>>>, <<93019, 0, <<>>>>,
       <<93026, 1, <<>>>>, <<93027, 0, <<>>>>, <<93048, 1, <<>>>>, <<93053, 0, <<>>>>,
       <<93072, 1, <<>>>>, <<93760, 3, <<93792>>>>, <<93761, 3, <<93793>>>>,
       <<93762, 3, <<93794>>>>, <<93763, 3, <<93795>>>>, <<93764, 3, <<93796>>>>,
       <<93765, 3, <<93797>>>>, <<93766, 3, <<93798>>>>, <<93767, 3, <<93799>>>>,
       <<93768, 3, <<93800>>>>, <<93769, 3, <<93801>>>>, <<93770, 3, <<93802>>>>,
       <<93771, 3, <<93803>>>>, <<93772, 3, <<93804>>>>, <<93773, 3, <<93805>>>>,
       <<93774, 3, <<93806>>>>, <<93775, 3, <<93807>>>>, <<93776, 3, <<93808>>>>,
       <<93777, 3, <<93809>>>>, <<93778, 3, <<93810>>>>, <<93779, 3, <<93811>>>>,
       <<93780, 3, <<93812>>>>, <<93781, 3, <<93813>>>>, <<93782, 3, <<93814>>>>,
       <<93783, 3, <<93815>>>>, <<93784, 3, <<93816>>>>, <<93785, 3, <<93817>>>>,
       <<93786, 3, <<93818>>>>, <<93787, 3, <<93819>>>>, <<93788, 3, <<93820>>>>,
       <<93789, 3, <<93821>>>>, <<93790, 3, <<93822>>>>, <<93791, 3, <<93823>>>>,
       <<93792, 0, <<>>>>, <<93851, 1, <<>>>>, <<93952, 0, <<>>>>, <<94027, 1, <<>>>>,
       <<94031, 0, <<>>>>, <<94088, 1, <<>>>>, <<94095, 0, <<>>>>, <<94112, 1, <<>>>>,
       <<94176, 0, <<>>>>, <<94181, 1, <<>>>>, <<94192, 0, <<>>>>, <<94194, 1, <<>>>>,
       <<94208, 0, <<>>>>, <<100344, 1, <<>>>>, <<100352, 0, <<>>>>, <<101590, 1, <<>>>>,
       <<101632, 0, <<>>>>, <<101641, 1, <<>>>>, <<110576, 0, <<>>>>, <<110580, 1, <<>>>>,
       <<110581, 0, <<>>>>, <<110588, 1, <<>>>>, <<110589, 0, <<>>>>, <<110591, 1, <<>>>>,
       <<110592, 0, <<>>>>, <<110883, 1, <<>>>>, <<110898, 0, <<>>>>, <<110899, 1, <<>>>>,
       <<110928, 0, <<>>>>, <<110931, 1, <<>>>>, <<110933, 0, <<>>>>, <<110934, 1, <<>>>>,
       <<110948, 0, <<>>>>, <<110952, 1, <<>>>>, <<110960, 0, <<>>>>, <<111356, 1, <<>>>>,
       <<113664, 0, <<>>>>, <<113771, 1, <<>>>>, <<113776, 0, <<>>>>, <<113789, 1, <<>>>>,
       <<113792, 0, <<>>>>, <<113801, 1, <<>>>>, <<113808, 0, <<>>>>, <<113818, 1, <<>>>>,
       <<113820, 0, <<>>>>, <<113824, 2, <<>>>>, <<113828, 1, <<>>>>, <<118528, 0, <<>>>>,
       <<118574, 1, <<>>>>, <<118576, 0, <<>>>>, <<118599, 1, <<>>>>, <<118608, 0, <<>>>>,
       <<118724, 1, <<>>>>, <<118784, 0, <<>>>>, <<119030, 1, <<>>>>, <<119040, 0, <<>>>>,
       <<119079, 1, <<>>>>, <<119081, 0, <<>>>>, <<119134, 3, <<119127, 119141>>>>,
       <<119135, 3, <<119128, 119141>>>>, <<119136, 3, <<119128, 119141, 119150>>>>,
       <<119137, 3, <<119128, 119141, 119151>>>>, <<119138, 3, <<119128, 119141, 119152>>>>,
       <<119139, 3, <<119128, 119141, 119153>>>>, <<119140, 3, <<119128, 119141, 119154>>>>,
       <<119141, 0, <<>>>>, <<119155, 1, <<>>>>, <<119163, 0, <<>>>>,
       <<119227, 3, <<119225, 119141>>>>, <<119228, 3, <<119226, 119141>>>>,
       <<119229, 3, <<119225, 119141, 119150>>>>, <<119230, 3, <<119226, 119141, 119150>>>>,
       <<119231, 3, <<119225, 119141, 119151>>>>, <<119232, 3, <<119226, 119141, 119151>>>>,
       <<119233, 0, <<>>>>, <<119275, 1, <<>>>>, <<119296, 0, <<>>>>, <<119366, 1, <<>>>>,
       <<119488, 0, <<>>>>, <<119508, 1, <<>>>>, <<119520, 0, <<>>>>, <<119540, 1, <<>>>>,
       <<119552, 0, <<>>>>, <<119639, 1, <<>>>>, <<119648, 0, <<>>>>, <<119673, 1, <<>>>>,
       <<119808, 3, <<97>>>>, <<119809, 3, <<98>>>>, <<119810, 3, <<99>>>>, <<119811, 3, <<100>>>>,
       <<119812, 3, <<101>>>>, <<119813, 3, <<102>>>>, <<119814, 3, <<103>>>>,
       <<119815, 3, <<104>>>>, <<119816, 3, <<105>>>>, <<119817, 3, <<106>>>>,
       <<119818, 3, <<107>>>>, <<119819, 3, <<108>>>>, <<119820, 3, <<109>>>>,
       <<119821, 3, <<110>>>>, <<119822, 3, <<111>>>>, <<119823, 3, <<112>>>>,
       <<119824, 3, <<113>>>>, <<119825, 3, <<114>>>>, <<119826, 3, <<115>>>>,
       <<119827, 3, <<116>>>>, <<119828, 3, <<117>>>>, <<119829, 3, <<118>>>>,
       <<119830, 3, <<119>>>>, <<119831, 3, <<120>>>>, <<119832, 3, <<121>>>>,
       <<119833, 3, <<122>>>>, <<119834, 3, <<97>>>>, <<119835, 3, <<98>>>>, <<119836, 3, <<99>>>>,
       <<119837, 3, <<100>>>>, <<119838, 3, <<101>>>>, <<119839, 3, <<102>>>>,
       <<119840, 3, <<103>>>>, <<119841, 3, <<104>>>>, <<119842, 3, <<105>>>>,
       <<119843, 3, <<106>>>>, <<119844, 3, <<107>>>>, <<119845, 3, <<108>>>>,
       <<119846, 3, <<109>>>>, <<119847, 3, <<110>>>>, <<119848, 3, <<111>>>>,
       <<119849, 3, <<112>>>>, <<119850, 3, <<113>>>>, <<119851, 3, <<114>>>>,
       <<119852, 3, <<115>>>>, <<119853, 3, <<116>>>>, <<119854, 3, <<117>>>>,
       <<119855, 3, <<118>>>>, <<119856, 3, <<119>>>>, <<119857, 3, <<120>>>>,
       <<119858, 3, <<121>>>>, <<119859, 3, <<122>>>>, <<119860, 3, <<97>>>>,
       <<119861, 3, <<98>>>>, <<119862, 3, <<99>>>>, <<119863, 3, <<100>>>>,
       <<119864, 3, <<101>>>>, <<119865, 3, <<102>>>>, <<119866, 3, <<103>>>>,
       <<119867, 3, <<104>>>>, <<119868, 3, <<105>>>>, <<119869, 3, <<106>>>>,
       <<119870, 3, <<107>>>>, <<119871, 3, <<108>>>>, <<119872, 3, <<109>>>>,
       <<119873, 3, <<110>>>>, <<119874, 3, <<111>>>>, <<119875, 3, <<112>>>>,
       <<119876, 3, <<113>>>>, <<119877, 3, <<114>>>>, <<119878, 3, <<115>>>>,
       <<119879, 3, <<116>>>>, <<119880, 3, <<117>>>>, <<119881, 3, <<118>>>>,
       <<119882, 3, <<119>>>>, <<119883, 3, <<120>>>>, <<119884, 3, <<121>>>>,
       <<119885, 3, <<122>>>>, <<119886, 3, <<97>>>>, <<119887, 3, <<98>>>>, <<119888, 3, <<99>>>>,
       <<119889, 3, <<100>>>>, <<119890, 3, <<101>>>>, <<119891, 3, <<102>>>>,
       <<119892, 3, <<103>>>>, <<119893, 1, <<>>>>, <<119894, 3, <<105>>>>, <<119895, 3, <<106>>>>,
       <<119896, 3, <<107>>>>, <<119897, 3, <<108>>>>, <<119898, 3, <<109>>>>,
       <<119899, 3, <<110>>>>, <<119900, 3, <<111>>>>, <<119901, 3, <<112>>>>,
       <<119902, 3, <<113>>>>, <<119903, 3, <<114>>>>, <<119904, 3, <<115>>>>,
       <<119905, 3, <<116>>>>, <<119906, 3, <<117>>>>, <<119907, 3, <<118>>>>,
       <<119908, 3, <<119>>>>, <<119909, 3, <<120>>>>, <<119910, 3, <<121>>>>,
       <<119911, 3, <<122>>>>, <<119912, 3, <<97>>>>, <<119913, 3, <<98>>>>, <<119914, 3, <<99>>>>,
       <<119915, 3, <<100>>>>, <<119916, 3, <<101>>>>, <<119917, 3, <<102>>>>,
       <<119918, 3, <<103>>>>, <<119919, 3, <<104>>>>, <<119920, 3, <<105>>>>,
       <<119921, 3, <<106>>>>, <<119922, 3, <<107>>>>, <<119923, 3, <<108>>>>,
       <<119924, 3, <<109>>>>, <<119925, 3, <<110>>>>, <<119926, 3, <<111>>>>,
       <<119927, 3, <<112>>>>, <<119928, 3, <<113>>>>, <<119929, 3, <<114>>>>,
       <<119930, 3, <<115>>>>, <<119931, 3, <<116>>>>, <<119932, 3, <<117>>>>,
       <<119933, 3, <<118>>>>, <<119934, 3, <<119>>>>, <<119935, 3, <<120>>>>,
       <<119936, 3, <<121>>>>, <<119937, 3, <<122>>>>, <<119938, 3, <<97>>>>,
       <<119939, 3, <<98>>>>, <<119940, 3, <<99>>>>, <<119941, 3, <<100>>>>,
       <<119942, 3, <<101>>>>, <<119943, 3, <<102>>>>, <<119944, 3, <<103>>>>,
       <<119945, 3, <<104>>>>, <<119946, 3, <<105>>>>, <<119947, 3, <<106>>>>,
       <<119948, 3, <<107>>>>, <<119949, 3, <<108>>>>, <<119950, 3, <<109>>>>,
       <<119951, 3, <<110>>>>, <<119952, 3, <<111>>>>, <<119953, 3, <<112>>>>,
       <<119954, 3, <<113>>>>, <<119955, 3, <<114>>>>, <<119956, 3, <<115>>>>,
       <<119957, 3, <<116>>>>, <<119958, 3, <<117>>>>, <<119959, 3, <<118>>>>,
       <<119960, 3, <<119>>>>, <<119961, 3, <<120>>>>, <<119962, 3, <<121>>>>,
       <<119963, 3, <<122>>>>, <<119964, 3, <<97>>>>, <<119965, 1, <<>>>>, <<119966, 3, <<99>>>>,
       <<119967, 3, <<100>>>>, <<119968, 1, <<>>>>, <<119970, 3, <<103>>>>, <<119971, 1, <<>>>>,
       <<119973, 3, <<106>>>>, <<119974, 3, <<107>>>>, <<119975, 1, <<>>>>, <<119977, 3, <<110>>>>,
       <<119978, 3, <<111>>>>, <<119979, 3, <<112>>>>, <<119980, 3, <<113>>>>, <<119981, 1, <<>>>>,
       <<119982, 3, <<115>>>>, <<119983, 3, <<116>>>>, <<119984, 3, <<117>>>>,
       <<119985, 3, <<118>>>>, <<119986, 3, <<119>>>>, <<119987, 3, <<120>>>>,
       <<119988, 3, <<121>>>>, <<119989, 3, <<122>>>>, <<119990, 3, <<97>>>>,
       <<119991, 3, <<98>>>>, <<119992, 3, <<99>>>>, <<119993, 3, <<100>>>>, <<119994, 1, <<>>>>,
       <<119995, 3, <<102>>>>, <<119996, 1, <<>>>>, <<119997, 3, <<104>>>>, <<119998, 3, <<105>>>>,
       <<119999, 3, <<106>>>>, <<120000, 3, <<107>>>>, <<120001, 3, <<108>>>>,
       <<120002, 3, <<109>>>>, <<120003, 3, <<110>>>>, <<120004, 1, <<>>>>, <<120005, 3, <<112>>>>,
       <<120006, 3, <<113>>>>, <<120007, 3, <<114>>>>, <<120008, 3, <<115>>>>,
       <<120009, 3, <<116>>>>, <<120010, 3, <<117>>>>, <<120011, 3, <<118>>>>,
       <<120012, 3, <<119>>>>, <<120013, 3, <<120>>>>, <<120014, 3, <<121>>>>,
       <<120015, 3, <<122>>>>, <<120016, 3, <<97>>>>, <<120017, 3, <<98>>>>, <<120018, 3, <<99>>>>,
       <<120019, 3, <<100>>>>, <<120020, 3, <<101>>>>, <<120021, 3, <<102>>>>,
       <<120022, 3, <<103>>>>, <<120023, 3, <<104>>>>, <<120024, 3, <<105>>>>,
       <<120025, 3, <<106>>>>, <<120026, 3, <<107>>>>, <<120027, 3, <<108>>>>,
       <<120028, 3, <<109>>>>, <<120029, 3, <<110>>>>, <<120030, 3, <<111>>>>,
       <<120031, 3, <<112>>>>, <<120032, 3, <<113>>>>, <<120033, 3, <<114>>>>,
       <<120034, 3, <<115>>>>, <<120035, 3, <<116>>>>, <<120036, 3, <<117>>>>,
       <<120037, 3, <<118>>>>, <<120038, 3, <<119>>>>, <<120039, 3, <<120>>>>,
       <<120040, 3, <<121>>>>, <<120041, 3, <<122>>>>, <<120042, 3, <<97>>>>,
       <<120043, 3, <<98>>>>, <<120044, 3, <<99>>>>, <<120045, 3, <<100>>>>,
       <<120046, 3, <<101>>>>, <<120047, 3, <<102>>>>, <<120048, 3, <<103>>>>,
       <<120049, 3, <<104>>>>, <<120050, 3, <<105>>>>, <<120051, 3, <<106>>>>,
       <<120052, 3, <<107>>>>, <<120053, 3, <<108>>>>, <<120054, 3, <<109>>>>,
       <<120055, 3, <<110>>>>, <<120056, 3, <<111>>>>, <<120057, 3, <<112>>>>,
       <<120058, 3, <<113>>>>, <<120059, 3, <<114>>>>, <<120060, 3, <<115>>>>,
       <<120061, 3, <<116>>>>, <<120062, 3, <<117>>>>, <<120063, 3, <<118>>>>,
       <<120064, 3, <<119>>>>, <<120065, 3, <<120>>>>, <<120066, 3, <<121>>>>,
       <<120067, 3, <<122>>>>, <<120068, 3, <<97>>>>, <<120069, 3, <<98>>>>, <<120070, 1, <<>>>>,
       <<120071, 3, <<100>>>>, <<120072, 3, <<101>>>>, <<120073, 3, <<102>>>>,
       <<120074, 3, <<103>>>>, <<120075, 1, <<>>>>, <<120077, 3, <<106>>>>, <<120078, 3, <<107>>>>,
       <<120079, 3, <<108>>>>, <<120080, 3, <<109>>>>, <<120081, 3, <<110>>>>,
       <<120082, 3, <<111>>>>, <<120083, 3, <<112>>>>, <<120084, 3, <<113>>>>, <<120085, 1, <<>>>>,
       <<120086, 3, <<115>>>>, <<120087, 3, <<116>>>>, <<120088, 3, <<117>>>>,
       <<120089, 3, <<118>>>>, <<120090, 3, <<119>>>>, <<120091, 3, <<120>>>>,
       <<120092, 3, <<121>>>>, <<120093, 1, <<>>>>, <<120094, 3, <<97>>>>, <<120095, 3, <<98>>>>,
       <<120096, 3, <<99>>>>, <<120097, 3, <<100>>>>, <<120098, 3, <<101>>>>,
       <<120099, 3, <<102>>>>, <<120100, 3, <<103>>>>, <<120101, 3, <<104>>>>,
       <<120102, 3, <<105>>>>, <<120103, 3, <<106>>>>, <<120104, 3, <<107>>>>,
       <<120105, 3, <<108>>>>, <<120106, 3, <<109>>>>, <<120107, 3, <<110>>>>,
       <<120108, 3, <<111>>>>, <<120109, 3, <<112>>>>, <<120110, 3, <<113>>>>,
       <<120111, 3, <<114>>>>, <<120112, 3, <<115>>>>, <<120113, 3, <<116>>>>,
       <<120114, 3, <<117>>>>, <<120115, 3, <<118>>>>, <<120116, 3, <<119>>>>,
       <<120117, 3, <<120>>>>, <<120118, 3, <<121>>>>, <<120119, 3, <<122>>>>,
       <<120120, 3, <<97>>>>, <<120121, 3, <<98>>>>, <<120122, 1, <<>>>>, <<120123, 3, <<100>>>>,
       <<120124, 3, <<101>>>>, <<120125, 3, <<102>>>>, <<120126, 3, <<103>>>>, <<120127, 1, <<>>>>,
       <<120128, 3, <<105>>>>, <<120129, 3, <<106>>>>, <<120130, 3, <<107>>>>,
       <<120131, 3, <<108>>>>, <<120132, 3, <<109>>>>, <<120133, 1, <<>>>>, <<120134, 3, <<111>>>>,
       <<120135, 1, <<>>>>, <<120138, 3, <<115>>>>, <<120139, 3, <<116>>>>, <<120140, 3, <<117>>>>,
       <<120141, 3, <<118>>>>, <<120142, 3, <<119>>>>, <<120143, 3, <<120>>>>,
       <<120144, 3, <<121>>>>, <<120145, 1, <<>>>>, <<120146, 3, <<97>>>>, <<120147, 3, <<98>>>>,
       <<120148, 3, <<99>>>>, <<120149, 3, <<100>>>>, <<120150, 3, <<101>>>>,
       <<120151, 3, <<102>>>>, <<120152, 3, <<103>>>>, <<120153, 3, <<104>>>>,
       <<120154, 3, <<105>>>>, <<120155, 3, <<106>>>>, <<120156, 3, <<107>>>>,
       <<120157, 3, <<108>>>>, <<120158, 3, <<109>>>>, <<120159, 3, <<110>>>>,
       <<120160, 3, <<111>>>>, <<120161, 3, <<112>>>>, <<120162, 3, <<113>>>>,
       <<120163, 3, <<114>>>>, <<120164, 3, <<115>>>>, <<120165, 3, <<116>>>>,
       <<120166, 3, <<117>>>>, <<120167, 3, <<118>>>>, <<120168, 3, <<119>>>>,
       <<120169, 3, <<120>>>>, <<120170, 3, <<121>>>>, <<120171, 3, <<122>>>>,
       <<120172, 3, <<97>>>>, <<120173, 3, <<98>>>>, <<120174, 3, <<99>>>>, <<120175, 3, <<100>>>>,
       <<120176, 3, <<101>>>>, <<120177, 3, <<102>>>>, <<120178, 3, <<103>>>>,
       <<120179, 3, <<104>>>>, <<120180, 3, <<105>>>>, <<120181, 3, <<106>>>>,
       <<120182, 3, <<107>>>>, <<120183, 3, <<108>>>>, <<120184, 3, <<109>>>>,
       <<120185, 3, <<110>>>>, <<120186, 3, <<111>>>>, <<120187, 3, <<112>>>>,
       <<120188, 3, <<113>>>>, <<120189, 3, <<114>>>>, <<120190, 3, <<115>>>>,
       <<120191, 3, <<116>>>>, <<120192, 3, <<117>>>>, <<120193, 3, <<118>>>>,
       <<120194, 3, <<119>>>>, <<120195, 3, <<120>>>>, <<120196, 3, <<121>>>>,
       <<120197, 3, <<122>>>>, <<120198, 3, <<97>>>>, <<120199, 3, <<98>>>>, <<120200, 3, <<99>>>>,
       <<120201, 3, <<100>>>>, <<120202, 3, <<101>>>>, <<120203, 3, <<102>>>>,
       <<120204, 3, <<103>>>>, <<120205, 3, <<104>>>>, <<120206, 3, <<105>>>>,
       <<120207, 3, <<106>>>>, <<120208, 3, <<107>>>>, <<120209, 3, <<108>>>>,
       <<120210, 3, <<109>>>>, <<120211, 3, <<110>>>>, <<120212, 3, <<111>>>>,
       <<120213, 3, <<112>>>>, <<120214, 3, <<113>>>>, <<120215, 3, <<114>>>>,
       <<120216, 3, <<115>>>>, <<120217, 3, <<116>>>>, <<120218, 3, <<117>>>>,
       <<120219, 3, <<118>>>>, <<120220, 3, <<119>>>>, <<120221, 3, <<120>>>>,
       <<120222, 3, <<121>>>>, <<120223, 3, <<122>>>>, <<120224, 3, <<97>>>>,
       <<120225, 3, <<98>>>>, <<120226, 3, <<99>>>>, <<120227, 3, <<100>>>>,
       <<120228, 3, <<101>>>>, <<120229, 3, <<102>>>>, <<120230, 3, <<103>>>>,
       <<120231, 3, <<104>>>>, <<120232, 3, <<105>>>>, <<120233, 3, <<106>>>>,
       <<120234, 3, <<107>>>>, <<120235, 3, <<108>>>>, <<120236, 3, <<109>>>>,
       <<120237, 3, <<110>>>>, <<120238, 3, <<111>>>>, <<120239, 3, <<112>>>>,
       <<120240, 3, <<113>>>>, <<120241, 3, <<114>>>>, <<120242, 3, <<115>>>>,
       <<120243, 3, <<116>>>>, <<120244, 3, <<117>>>>, <<120245, 3, <<118>>>>,
       <<120246, 3, <<119>>>>, <<120247, 3, <<120>>>>, <<120248, 3, <<121>>>>,
       <<120249, 3, <<122>>>>, <<120250, 3, <<97>>>>, <<120251, 3, <<98>>>>, <<120252, 3, <<99>>>>,
       <<120253, 3, <<100>>>>, <<120254, 3, <<101>>>>, <<120255, 3, <<102>>>>,
       <<120256, 3, <<103>>>>, <<120257, 3, <<104>>>>, <<120258, 3, <<105>>>>,
       <<120259, 3, <<106>>>>, <<120260, 3, <<107>>>>, <<120261, 3, <<108>>>>,
       <<120262, 3, <<109>>>>, <<120263, 3, <<110>>>>, <<120264, 3, <<111>>>>,
       <<120265, 3, <<112>>>>, <<120266, 3, <<113>>>>, <<120267, 3, <<114>>>>,
       <<120268, 3, <<115>>>>, <<120269, 3, <<116>>>>, <<120270, 3, <<117>>>>,
       <<120271, 3, <<118>>>>, <<120272, 3, <<119>>>>, <<120273, 3, <<120>>>>,
       <<120274, 3, <<121>>>>, <<120275, 3, <<122>>>>, <<120276, 3, <<97>>>>,
       <<120277, 3, <<98>>>>, <<120278, 3, <<99>>>>, <<120279, 3, <<100>>>>,
       <<120280, 3, <<101>>>>, <<120281, 3, <<102>>>>, <<120282, 3, <<103>>>>,
       <<120283, 3, <<104>>>>, <<120284, 3, <<105>>>>, <<120285, 3, <<106>>>>,
       <<120286, 3, <<107>>>>, <<120287, 3, <<108>>>>, <<120288, 3, <<109>>>>,
       <<120289, 3, <<110>>>>, <<120290, 3, <<111>>>>, <<120291, 3, <<112>>>>,
       <<120292, 3, <<113>>>>, <<120293, 3, <<114>>>>, <<120294, 3, <<115>>>>,
       <<120295, 3, <<116>>>>, <<120296, 3, <<117>>>>, <<120297, 3, <<118>>>>,
       <<120298, 3, <<119>>>>, <<120299, 3, <<120>>>>, <<120300, 3, <<121>>>>,
       <<120301, 3, <<122>>>>, <<120302, 3, <<97>>>>, <<120303, 3, <<98>>>>, <<120304, 3, <<99>>>>,
       <<120305, 3, <<100>>>>, <<120306, 3, <<101>>>>, <<120307, 3, <<102>>>>,
       <<120308, 3, <<103>>>>, <<120309, 3, <<104>>>>, <<120310, 3, <<105>>>>,
       <<120311, 3, <<106>>>>, <<120312, 3, <<107>>>>, <<120313, 3, <<108>>>>,
       <<120314, 3, <<109>>>>, <<120315, 3, <<110>>>>, <<120316, 3, <<111>>>>,
       <<120317, 3, <<112>>>>, <<120318, 3, <<113>>>>, <<120319, 3, <<114>>>>,
       <<120320, 3, <<115>>>>, <<120321, 3, <<116>>>>, <<120322, 3, <<117>>>>,
       <<120323, 3, <<118>>>>, <<120324, 3, <<119>>>>, <<120325, 3, <<120>>>>,
       <<120326, 3, <<121>>>>, <<120327, 3, <<122>>>>, <<120328, 3, <<97>>>>,
       <<120329, 3, <<98>>>>, <<120330, 3, <<99>>>>, <<120331, 3, <<100>>>>,
       <<120332, 3, <<101>>>>, <<120333, 3, <<102>>>>, <<120334, 3, <<103>>>>,
       <<120335, 3, <<104>>>>, <<120336, 3, <<105>>>>, <<120337, 3, <<106>>>>,
       <<120338, 3, <<107>>>>, <<120339, 3, <<108>>>>, <<120340, 3, <<109>>>>,
       <<120341, 3, <<110>>>>, <<120342, 3, <<111>>>>, <<120343, 3, <<112>>>>,
       <<120344, 3, <<113>>>>, <<120345, 3, <<114>>>>, <<120346, 3, <<115>>>>,
       <<120347, 3, <<116>>>>, <<120348, 3, <<117>>>>, <<120349, 3, <<118>>>>,
       <<120350, 3, <<119>>>>, <<120351, 3, <<120>>>>, <<120352, 3, <<121>>>>,
       <<120353, 3, <<122>>>>, <<120354, 3, <<97>>>>, <<120355, 3, <<98>>>>, <<120356, 3, <<99>>>>,
       <<120357, 3, <<100>>>>, <<120358, 3, <<101>>>>, <<120359, 3, <<102>>>>,
       <<120360, 3, <<103>>>>, <<120361, 3, <<104>>>>, <<120362, 3, <<105>>>>,
       <<120363, 3, <<106>>>>, <<120364, 3, <<107>>>>, <<120365, 3, <<108>>>>,
       <<120366, 3, <<109>>>>, <<120367, 3, <<110>>>>, <<120368, 3, <<111>>>>,
       <<120369, 3, <<112>>>>, <<120370, 3, <<113>>>>, <<120371, 3, <<114>>>>,
       <<120372, 3, <<115>>>>, <<120373, 3, <<116>>>>, <<120374, 3, <<117>>>>,
       <<120375, 3, <<118>>>>, <<120376, 3, <<119>>>>, <<120377, 3, <<120>>>>,
       <<120378, 3, <<121>>>>, <<120379, 3, <<122>>>>, <<120380, 3, <<97>>>>,
       <<120381, 3, <<98>>>>, <<120382, 3, <<99>>>>, <<120383, 3, <<100>>>>,
       <<120384, 3, <<101>>>>, <<120385, 3, <<102>>>>, <<120386, 3, <<103>>>>,
       <<120387, 3, <<104>>>>, <<120388, 3, <<105>>>>, <<120389, 3, <<106>>>>,
       <<120390, 3, <<107>>>>, <<120391, 3, <<108>>>>, <<120392, 3, <<109>>>>,
       <<120393, 3, <<110>>>>, <<120394, 3, <<111>>>>, <<120395, 3, <<112>>>>,
       <<120396, 3, <<113>>>>, <<120397, 3, <<114>>>>, <<120398, 3, <<115>>>>,
       <<120399, 3, <<116>>>>, <<120400, 3, <<117>>>>, <<120401, 3, <<118>>>>,
       <<120402, 3, <<119>>>>, <<120403, 3, <<120>>>>, <<120404, 3, <<121>>>>,
       <<120405, 3, <<122>>>>, <<120406, 3, <<97>>>>, <<120407, 3, <<98>>>>, <<120408, 3, <<99>>>>,
       <<120409, 3, <<100>>>>, <<120410, 3, <<101>>>>, <<120411, 3, <<102>>>>,
       <<120412, 3, <<103>>>>, <<120413, 3, <<104>>>>, <<120414, 3, <<105>>>>,
       <<120415, 3, <<106>>>>, <<120416, 3, <<107>>>>, <<120417, 3, <<108>>>>,
       <<120418, 3, <<109>>>>, <<120419, 3, <<110>>>>, <<120420, 3, <<111>>>>,
       <<120421, 3, <<112>>>>, <<120422, 3, <<113>>>>, <<120423, 3, <<114>>>>,
       <<120424, 3, <<115>>>>, <<120425, 3, <<116>>>>, <<120426, 3, <<117>>>>,
       <<120427, 3, <<118>>>>, <<120428, 3, <<119>>>>, <<120429, 3, <<120>>>>,
       <<120430, 3, <<121>>>>, <<120431, 3, <<122>>>>, <<120432, 3, <<97>>>>,
       <<120433, 3, <<98>>>>, <<120434, 3, <<99>>>>, <<120435, 3, <<100>>>>,
       <<120436, 3, <<101>>>>, <<120437, 3, <<102>>>>, <<120438, 3, <<103>>>>,
       <<120439, 3, <<104>>>>, <<120440, 3, <<105>>>>, <<120441, 3, <<106>>>>,
       <<120442, 3, <<107>>>>, <<120443, 3, <<108>>>>, <<120444, 3, <<109>>>>,
       <<120445, 3, <<110>>>>, <<120446, 3, <<111>>>>, <<120447, 3, <<112>>>>,
       <<120448, 3, <<113>>>>, <<120449, 3, <<114>>>>, <<120450, 3, <<115>>>>,
       <<120451, 3, <<116>>>>, <<120452, 3, <<117>>>>, <<120453, 3, <<118>>>>,
       <<120454, 3, <<119>>>>, <<120455, 3, <<120>>>>, <<120456, 3, <<121>>>>,
       <<120457, 3, <<122>>>>, <<120458, 3, <<97>>>>, <<120459, 3, <<98>>>>, <<120460, 3, <<99>>>>,
       <<120461, 3, <<100>>>>, <<120462, 3, <<101>>>>, <<120463, 3, <<102>>>>,
       <<120464, 3, <<103>>>>, <<120465, 3, <<104>>>>, <<120466, 3, <<105>>>>,
       <<120467, 3, <<106>>>>, <<120468, 3, <<107>>>>, <<120469, 3, <<108>>>>,
       <<120470, 3, <<109>>>>, <<120471, 3, <<110>>>>, <<120472, 3, <<111>>>>,
       <<120473, 3, <<112>>>>, <<120474, 3, <<113>>>>, <<120475, 3, <<114>>>>,
       <<120476, 3, <<115>>>>, <<120477, 3, <<116>>>>, <<120478, 3, <<117>>>>,
       <<120479, 3, <<118>>>>, <<120480, 3, <<119>>>>, <<120481, 3, <<120>>>>,
       <<120482, 3, <<121>>>>, <<120483, 3, <<122>>>>, <<120484, 3, <<305>>>>,
       <<120485, 3, <<567>>>>, <<120486, 1, <<>>>>, <<120488, 3, <<945>>>>, <<120489, 3, <<946>>>>,
       <<120490, 3, <<947>>>>, <<120491, 3, <<948>>>>, <<120492, 3, <<949>>>>,
       <<120493, 3, <<950>>>>, <<120494, 3, <<951>>>>, <<120495, 3, <<952>>>>,
       <<120496, 3, <<953>>>>, <<120497, 3, <<954>>>>, <<120498, 3, <<955>>>>,
       <<120499, 3, <<956>>>>, <<120500, 3, <<957>>>>, <<120501, 3, <<958>>>>,
       <<120502, 3, <<959>>>>, <<120503, 3, <<960>>>>, <<120504, 3, <<961>>>>,
       <<120505, 3, <<952>>>>, <<120506, 3, <<963>>>>, <<120507, 3, <<964>>>>,
       <<120508, 3, <<965>>>>, <<120509, 3, <<966>>>>, <<120510, 3, <<967>>>>,
       <<120511, 3, <<968>>>>, <<120512, 3, <<969>>>>, <<120513, 3, <<8711>>>>,
       <<120514, 3, <<945>>>>, <<120515, 3, <<946>>>>, <<120516, 3, <<947>>>>,
       <<120517, 3, <<948>>>>, <<120518, 3, <<949>>>>, <<120519, 3, <<950>>>>,
       <<120520, 3, <<951>>>>, <<120521, 3, <<952>>>>, <<120522, 3, <<953>>>>,
       <<120523, 3, <<954>>>>, <<120524, 3, <<955>>>>, <<120525, 3, <<956>>>>,
       <<120526, 3, <<957>>>>, <<120527, 3, <<958>>>>, <<120528, 3, <<959>>>>,
       <<120529, 3, <<960>>>>, <<120530, 3, <<961>>>>, <<120531, 3, <<963>>>>,
       <<120533, 3, <<964>>>>, <<120534, 3, <<965>>>>, <<120535, 3, <<966>>>>,
       <<120536, 3, <<967>>>>, <<120537, 3, <<968>>>>, <<120538, 3, <<969>>>>,
       <<120539, 3, <<8706>>>>, <<120540, 3, <<949>>>>, <<120541, 3, <<952>>>>,
       <<120542, 3, <<954>>>>, <<120543, 3, <<966>>>>, <<120544, 3, <<961>>>>,
       <<120545, 3, <<960>>>>, <<120546, 3, <<945>>>>, <<120547, 3, <<946>>>>,
       <<120548, 3, <<947>>>>, <<120549, 3, <<948>>>>, <<120550, 3, <<949>>>>,
       <<120551, 3, <<950>>>>, <<120552, 3, <<951>>>>, <<120553, 3, <<952>>>>,
       <<120554, 3, <<953>>>>, <<120555, 3, <<954>>>>, <<120556, 3, <<955>>>>,
       <<120557, 3, <<956>>>>, <<120558, 3, <<957>>>>, <<120559, 3, <<958>>>>,
       <<120560, 3, <<959>>>>, <<120561, 3, <<960>>>>, <<120562, 3, <<961>>>>,
       <<120563, 3, <<952>>>>, <<120564, 3, <<963>>>>, <<120565, 3, <<964>>>>,
       <<120566, 3, <<965>>>>, <<120567, 3, <<966>>>>, <<120568, 3, <<967>>>>,
       <<120569, 3, <<968>>>>, <<120570, 3, <<969>>>>, <<120571, 3, <<8711>>>>,
       <<120572, 3, <<945>>>>, <<120573, 3, <<946>>>>, <<120574, 3, <<947>>>>,
       <<120575, 3, <<948>>>>, <<120576, 3, <<949>>>>, <<120577, 3, <<950>>>>,
       <<120578, 3, <<951>>>>, <<120579, 3, <<952>>>>, <<120580, 3, <<953>>>>,
       <<120581, 3, <<954>>>>, <<120582, 3, <<955>>>>, <<120583, 3, <<956>>>>,
       <<120584, 3, <<957>>>>, <<120585, 3, <<958>>>>, <<120586, 3, <<959>>>>,
       <<120587, 3, <<960>>>>, <<120588, 3, <<961>>>>, <<120589, 3, <<963>>>>,
       <<120591, 3, <<964>>>>, <<120592, 3, <<965>>>>, <<120593, 3, <<966>>>>,
       <<120594, 3, <<967>>>>, <<120595, 3, <<968>>>>, <<120596, 3, <<969>>>>,
       <<120597, 3, <<8706>>>>, <<120598, 3, <<949>>>>, <<120599, 3, <<952>>>>,
       <<120600, 3, <<954>>>>, <<120601, 3, <<966>>>>, <<120602, 3, <<961>>>>,
       <<120603, 3, <<960>>>>, <<120604, 3, <<945>>>>, <<120605, 3, <<946>>>>,
       <<120606, 3, <<947>>>>, <<120607, 3, <<948>>>>, <<120608, 3, <<949>>>>,
       <<120609, 3, <<950>>>>, <<120610, 3, <<951>>>>, <<120611, 3, <<952>>>>,
       <<120612, 3, <<953>>>>, <<120613, 3, <<954>>>>, <<120614, 3, <<955>>>>,
       <<120615, 3, <<956>>>>, <<120616, 3, <<957>>>>, <<120617, 3, <<958>>>>,
       <<120618, 3, <<959>>>>, <<120619, 3, <<960>>>>, <<120620, 3, <<961>>>>,
       <<120621, 3, <<952>>>>, <<120622, 3, <<963>>>>, <<120623, 3, <<964>>>>,
       <<120624, 3, <<965>>>>, <<120625, 3, <<966>>>>, <<120626, 3, <<967>>>>,
       <<120627, 3, <<968>>>>, <<120628, 3, <<969>>>>, <<120629, 3, <<8711>>>>,
       <<120630, 3, <<945>>>>, <<120631, 3, <<946>>>>, <<120632, 3, <<947>>>>,
       <<120633, 3, <<948>>>>, <<120634, 3, <<949>>>>, <<120635, 3, <<950>>>>,
       <<120636, 3, <<951>>>>, <<120637, 3, <<952>>>>, <<120638, 3, <<953>>>>,
       <<120639, 3, <<954>>>>, <<120640, 3, <<955>>>>, <<120641, 3, <<956>>>>,
       <<120642, 3, <<957>>>>, <<120643, 3, <<958>>>>, <<120644, 3, <<959>>>>,
       <<120645, 3, <<960>>>>, <<120646, 3, <<961>>>>, <<120647, 3, <<963>>>>,
       <<120649, 3, <<964>>>>, <<120650, 3, <<965>>>>, <<120651, 3, <<966>>>>,
       <<120652, 3, <<967>>>>, <<120653, 3, <<968>>>>, <<120654, 3, <<969>>>>,
       <<120655, 3, <<8706>>>>, <<120656, 3, <<949>>>>, <<120657, 3, <<952>>>>,
       <<120658, 3, <<954>>>>, <<120659, 3, <<966>>>>, <<120660, 3, <<961>>>>,
       <<120661, 3, <<960>>>>, <<120662, 3, <<945>>>>, <<120663, 3, <<946>>>>,
       <<120664, 3, <<947>>>>, <<120665, 3, <<948>>>>, <<120666, 3, <<949>>>>,
       <<120667, 3, <<950>>>>, <<120668, 3, <<951>>>>, <<120669, 3, <<952>>>>,
       <<120670, 3, <<953>>>>, <<120671, 3, <<954>>>>, <<120672, 3, <<955>>>>,
       <<120673, 3, <<956>>>>, <<120674, 3, <<957>>>>, <<120675, 3, <<958>>>>,
       <<120676, 3, <<959>>>>, <<120677, 3, <<960>>>>, <<120678, 3, <<961>>>>,
       <<120679, 3, <<952>>>>, <<120680, 3, <<963>>>>, <<120681, 3, <<964>>>>,
       <<120682, 3, <<965>>>>, <<120683, 3, <<966>>>>, <<120684, 3, <<967>>>>,
       <<120685, 3, <<968>>>>, <<120686, 3, <<969>>>>, <<120687, 3, <<8711>>>>,
       <<120688, 3, <<945>>>>, <<120689, 3, <<946>>>>, <<120690, 3, <<947>>>>,
       <<120691, 3, <<948>>>>, <<120692, 3, <<949>>>>, <<120693, 3, <<950>>>>,
       <<120694, 3, <<951>>>>, <<120695, 3, <<952>>>>, <<120696, 3, <<953>>>>,
       <<120697, 3, <<954>>>>, <<120698, 3, <<955>>>>, <<120699, 3, <<956>>>>,
       <<120700, 3, <<957>>>>, <<120701, 3, <<958>>>>, <<120702, 3, <<959>>>>,
       <<120703, 3, <<960>>>>, <<120704, 3, <<961>>>>, <<120705, 3, <<963>>>>,
       <<120707, 3, <<964>>>>, <<120708, 3, <<965>>>>, <<120709, 3, <<966>>>>,
       <<120710, 3, <<967>>>>, <<120711, 3, <<968>>>>, <<120712, 3, <<969>>>>,
       <<120713, 3, <<8706>>>>, <<120714, 3, <<949>>>>, <<120715, 3, <<952>>>>,
       <<120716, 3, <<954>>>>, <<120717, 3, <<966>>>>, <<120718, 3, <<961>>>>,
       <<120719, 3, <<960>>>>, <<120720, 3, <<945>>>>, <<120721, 3, <<946>>>>,
       <<120722, 3, <<947>>>>, <<120723, 3, <<948>>>>, <<120724, 3, <<949>>>>,
       <<120725, 3, <<950>>>>, <<120726, 3, <<951>>>>, <<120727, 3, <<952>>>>,
       <<120728, 3, <<953>>>>, <<120729, 3, <<954>>>>, <<120730, 3, <<955>>>>,
       <<120731, 3, <<956>>>>, <<120732, 3, <<957>>>>, <<120733, 3, <<958>>>>,
       <<120734, 3, <<959>>>>, <<120735, 3, <<960>>>>, <<120736, 3, <<961>>>>,
       <<120737, 3, <<952>>>>, <<120738, 3, <<963>>>>, <<120739, 3, <<964>>>>,
       <<120740, 3, <<965>>>>, <<120741, 3, <<966>>>>, <<120742, 3, <<967>>>>,
       <<120743, 3, <<968>>>>, <<120744, 3, <<969>>>>, <<120745, 3, <<8711>>>>,
       <<120746, 3, <<945>>>>, <<120747, 3, <<946>>>>, <<120748, 3, <<947>>>>,
       <<120749, 3, <<948>>>>, <<120750, 3, <<949>>>>, <<120751, 3, <<950>>>>,
       <<120752, 3, <<951>>>>, <<120753, 3, <<952>>>>, <<120754, 3, <<953>>>>,
       <<120755, 3, <<954>>>>, <<120756, 3, <<955>>>>, <<120757, 3, <<956>>>>,
       <<120758, 3, <<957>>>>, <<120759, 3, <<958>>>>, <<120760, 3, <<959>>>>,
       <<120761, 3, <<960>>>>, <<120762, 3, <<961>>>>, <<120763, 3, <<963>>>>,
       <<120765, 3, <<964>>>>, <<120766, 3, <<965>>>>, <<120767, 3, <<966>>>>,
       <<120768, 3, <<967>>>>, <<120769, 3, <<968>>>>, <<120770, 3, <<969>>>>,
       <<120771, 3, <<8706>>>>, <<120772, 3, <<949>>>>, <<120773, 3, <<952>>>>,
       <<120774, 3, <<954>>>>, <<120775, 3, <<966>>>>, <<120776, 3, <<961>>>>,
       <<120777, 3, <<960>>>>, <<120778, 3, <<989>>>>, <<120780, 1, <<>>>>, <<120782, 3, <<48>>>>,
       <<120783, 3, <<49>>>>, <<120784, 3, <<50>>>>, <<120785, 3, <<51>>>>, <<120786, 3, <<52>>>>,
       <<120787, 3, <<53>>>>, <<120788, 3, <<54>>>>, <<120789, 3, <<55>>>>, <<120790, 3, <<56>>>>,
       <<120791, 3, <<57>>>>, <<120792, 3, <<48>>>>, <<120793, 3, <<49>>>>, <<120794, 3, <<50>>>>,
       <<120795, 3, <<51>>>>, <<120796, 3, <<52>>>>, <<120797, 3, <<53>>>>, <<120798, 3, <<54>>>>,
       <<120799, 3, <<55>>>>, <<120800, 3, <<56>>>>, <<120801, 3, <<57>>>>, <<120802, 3, <<48>>>>,
       <<120803, 3, <<49>>>>, <<120804, 3, <<50>>>>, <<120805, 3, <<51>>>>, <<120806, 3, <<52>>>>,
       <<120807, 3, <<53>>>>, <<120808, 3, <<54>>>>, <<120809, 3, <<55>>>>, <<120810, 3, <<56>>>>,
       <<120811, 3, <<57>>>>, <<120812, 3, <<48>>>>, <<120813, 3, <<49>>>>, <<120814, 3, <<50>>>>,
       <<120815, 3, <<51>>>>, <<120816, 3, <<52>>>>, <<120817, 3, <<53>>>>, <<120818, 3, <<54>>>>,
       <<120819, 3, <<55>>>>, <<120820, 3, <<56>>>>, <<120821, 3, <<57>>>>, <<120822, 3, <<48>>>>,
       <<120823, 3, <<49>>>>, <<120824, 3, <<50>>>>, <<120825, 3, <<51>>>>, <<120826, 3, <<52>>>>,
       <<120827, 3, <<53>>>>, <<120828, 3, <<54>>>>, <<120829, 3, <<55>>>>, <<120830, 3, <<56>>>>,
       <<120831, 3, <<57>>>>, <<120832, 0, <<>>>>, <<121484, 1, <<>>>>, <<121499, 0, <<>>>>,
       <<121504, 1, <<>>>>, <<121505, 0, <<>>>>, <<121520, 1, <<>>>>, <<122624, 0, <<>>>>,
       <<122655, 1, <<>>>>, <<122661, 0, <<>>>>, <<122667, 1, <<>>>>, <<122880, 0, <<>>>>,
       <<122887, 1, <<>>>>, <<122888, 0, <<>>>>, <<122905, 1, <<>>>>, <<122907, 0, <<>>>>,
       <<122914, 1, <<>>>>, <<122915, 0, <<>>>>, <<122917, 1, <<>>>>, <<122918, 0, <<>>>>,
       <<122923, 1, <<>>>>, <<122928, 3, <<1072>>>>, <<122929, 3, <<1073>>>>,
       <<122930, 3, <<1074>>>>, <<122931, 3, <<1075>>>>, <<122932, 3, <<1076>>>>,
       <<122933, 3, <<1077>>>>, <<122934, 3, <<1078>>>>, <<122935, 3, <<1079>>>>,
       <<122936, 3, <<1080>>>>, <<122937, 3, <<1082>>>>, <<122938, 3, <<1083>>>>,
       <<122939, 3, <<1084>>>>, <<122940, 3, <<1086>>>>, <<122941, 3, <<1087>>>>,
       <<122942, 3, <<1088>>>>, <<122943, 3, <<1089>>>>, <<122944, 3, <<1090>>>>,
       <<122945, 3, <<1091>>>>, <<122946, 3, <<1092>>>>, <<122947, 3, <<1093>>>>,
       <<122948, 3, <<1094>>>>, <<122949, 3, <<1095>>>>, <<122950, 3, <<1096>>>>,
       <<122951, 3, <<1099>>>>, <<122952, 3, <<1101>>>>, <<122953, 3, <<1102>>>>,
       <<122954, 3, <<42633>>>>, <<122955, 3, <<1241>>>>, <<122956, 3, <<1110>>>>,
       <<122957, 3, <<1112>>>>, <<122958, 3, <<1257>>>>, <<122959, 3, <<1199>>>>,
       <<122960, 3, <<1231>>>>, <<122961, 3, <<1072>>>>, <<122962, 3, <<1073>>>>,
       <<122963, 3, <<1074>>>>, <<122964, 3, <<1075>>>>, <<122965, 3, <<1076>>>>,
       <<122966, 3, <<1077>>>>, <<122967, 3, <<1078>>>>, <<122968, 3, <<1079>>>>,
       <<122969, 3, <<1080>>>>, <<122970, 3, <<1082>>>>, <<122971, 3, <<1083>>>>,
       <<122972, 3, <<1086>>>>, <<122973, 3, <<1087>>>>, <<122974, 3, <<1089>>>>,
       <<122975, 3, <<1091>>>>, <<122976, 3, <<1092>>>>, <<122977, 3, <<1093>>>>,
       <<122978, 3, <<1094>>>>, <<122979, 3, <<1095>>>>, <<122980, 3, <<1096>>>>,
       <<122981, 3, <<1098>>>>, <<122982, 3, <<1099>>>>, <<122983, 3, <<1169>>>>,
       <<122984, 3, <<1110>>>>, <<122985, 3, <<1109>>>>, <<122986, 3, <<1119>>>>,
       <<122987, 3, <<1195>>>>, <<122988, 3, <<42577>>>>, <<122989, 3, <<1201>>>>,
       <<122990, 1, <<>>>>, <<123023, 0, <<>>>>, <<123024, 1, <<>>>>, <<123136, 0, <<>>>>,
       <<123181, 1, <<>>>>, <<123184, 0, <<>>>>, <<123198, 1, <<>>>>, <<123200, 0, <<>>>>,
       <<123210, 1, <<>>>>, <<123214, 0, <<>>>>, <<123216, 1, <<>>>>, <<123536, 0, <<>>>>,
       <<123567, 1, <<>>>>, <<123584, 0, <<>>>>, <<123642, 1, <<>>>>, <<123647, 0, <<>>>>,
       <<123648, 1, <<>>>>, <<124112, 0, <<>>>>, <<124154, 1, <<>>>>, <<124896, 0, <<>>>>,
       <<124903, 1, <<>>>>, <<124904, 0, <<>>>>, <<124908, 1, <<>>>>, <<124909, 0, <<>>>>,
       <<124911, 1, <<>>>>, <<124912, 0, <<>>>>, <<124927, 1, <<>>>>, <<124928, 0, <<>>>>,
       <<125125, 1, <<>>>>, <<125127, 0, <<>>>>, <<125143, 1, <<>>>>, <<125184, 3, <<125218>>>>,
       <<125185, 3, <<125219>>>>, <<125186, 3, <<125220>>>>, <<125187, 3, <<125221>>>>,
       <<125188, 3, <<125222>>>>, <<125189, 3, <<125223>>>>, <<125190, 3, <<125224>>>>,
       <<125191, 3, <<125225>>>>, <<125192, 3, <<125226>>>>, <<125193, 3, <<125227>>>>,
       <<125194, 3, <<125228>>>>, <<125195, 3, <<125229>>>>, <<125196, 3, <<125230>>>>,
       <<125197, 3, <<125231>>>>, <<125198, 3, <<125232>>>>, <<125199, 3, <<125233>>>>,
       <<125200, 3, <<125234>>>>, <<125201, 3, <<125235>>>>, <<125202, 3, <<125236>>>>,
       <<125203, 3, <<125237>>>>, <<125204, 3, <<125238>>>>, <<125205, 3, <<125239>>>>,
       <<125206, 3, <<125240>>>>, <<125207, 3, <<125241>>>>, <<125208, 3, <<125242>>>>,
       <<125209, 3, <<125243>>>>, <<125210, 3, <<125244>>>>, <<125211, 3, <<125245>>>>,
       <<125212, 3, <<125246>>>>, <<125213, 3, <<125247>>>>, <<125214, 3, <<125248>>>>,
       <<125215, 3, <<125249>>>>, <<125216, 3, <<125250>>>>, <<125217, 3, <<125251>>>>,
       <<125218, 0, <<>>>>, <<125260, 1, <<>>>>, <<125264, 0, <<>>>>, <<125274, 1, <<>>>>,
       <<125278, 0, <<>>>>, <<125280, 1, <<>>>>, <<126065, 0, <<>>>>, <<126133, 1, <<>>>>,
       <<126209, 0, <<>>>>, <<126270, 1, <<>>>>, <<126464, 3, <<1575>>>>, <<126465, 3, <<1576>>>>,
       <<126466, 3, <<1580>>>>, <<126467, 3, <<1583>>>>, <<126468, 1, <<>>>>,
       <<126469, 3, <<1608>>>>, <<126470, 3, <<1586>>>>, <<126471, 3, <<1581>>>>,
       <<126472, 3, <<1591>>>>, <<126473, 3, <<1610>>>>, <<126474, 3, <<1603>>>>,
       <<126475, 3, <<1604>>>>, <<126476, 3, <<1605>>>>, <<126477, 3, <<1606>>>>,
       <<126478, 3, <<1587>>>>, <<126479, 3, <<1593>>>>, <<126480, 3, <<1601>>>>,
       <<126481, 3, <<1589>>>>, <<126482, 3, <<1602>>>>, <<126483, 3, <<1585>>>>,
       <<126484, 3, <<1588>>>>, <<126485, 3, <<1578>>>>, <<126486, 3, <<1579>>>>,
       <<126487, 3, <<1582>>>>, <<126488, 3, <<1584>>>>, <<126489, 3, <<1590>>>>,
       <<126490, 3, <<1592>>>>, <<126491, 3, <<1594>>>>, <<126492, 3, <<1646>>>>,
       <<126493, 3, <<1722>>>>, <<126494, 3, <<1697>>>>, <<126495, 3, <<1647>>>>,
       <<126496, 1, <<>>>>, <<126497, 3, <<1576>>>>, <<126498, 3, <<1580>>>>, <<126499, 1, <<>>>>,
       <<126500, 3, <<1607>>>>, <<126501, 1, <<>>>>, <<126503, 3, <<1581>>>>, <<126504, 1, <<>>>>,
       <<126505, 3, <<1610>>>>, <<126506, 3, <<1603>>>>, <<126507, 3, <<1604>>>>,
       <<126508, 3, <<1605>>>>, <<126509, 3, <<1606>>>>, <<126510, 3, <<1587>>>>,
       <<126511, 3, <<1593>>>>, <<126512, 3, <<1601>>>>, <<126513, 3, <<1589>>>>,
       <<126514, 3, <<1602>>>>, <<126515, 1, <<>>>>, <<126516, 3, <<1588>>>>,
       <<126517, 3, <<1578>>>>, <<126518, 3, <<1579>>>>, <<126519, 3, <<1582>>>>,
       <<126520, 1, <<>>>>, <<126521, 3, <<1590>>>>, <<126522, 1, <<>>>>, <<126523, 3, <<1594>>>>,
       <<126524, 1, <<>>>>, <<126530, 3, <<1580>>>>, <<126531, 1, <<>>>>, <<126535, 3, <<1581>>>>,
       <<126536, 1, <<>>>>, <<126537, 3, <<1610>>>>, <<126538, 1, <<>>>>, <<126539, 3, <<1604>>>>,
       <<126540, 1, <<>>>>, <<126541, 3, <<1606>>>>, <<126542, 3, <<1587>>>>,
       <<126543, 3, <<1593>>>>, <<126544, 1, <<>>>>, <<126545, 3, <<1589>>>>,
       <<126546, 3, <<1602>>>>, <<126547, 1, <<>>>>, <<126548, 3, <<1588>>>>, <<126549, 1, <<>>>>,
       <<126551, 3, <<1582>>>>, <<126552, 1, <<>>>>, <<126553, 3, <<1590>>>>, <<126554, 1, <<>>>>,
       <<126555, 3, <<1594>>>>, <<126556, 1, <<>>>>, <<126557, 3, <<1722>>>>, <<126558, 1, <<>>>>,
       <<126559, 3, <<1647>>>>, <<126560, 1, <<>>>>, <<126561, 3, <<1576>>>>,
       <<126562, 3, <<1580>>>>, <<126563, 1, <<>>>>, <<126564, 3, <<1607>>>>, <<126565, 1, <<>>>>,
       <<126567, 3, <<1581>>>>, <<126568, 3, <<1591>>>>, <<126569, 3, <<1610>>>>,
       <<126570, 3, <<1603>>>>, <<126571, 1, <<>>>>, <<126572, 3, <<1605>>>>,
       <<126573, 3, <<1606>>>>, <<126574, 3, <<1587>>>>, <<126575, 3, <<1593>>>>,
       <<126576, 3, <<1601>>>>, <<126577, 3, <<1589>>>>, <<126578, 3, <<1602>>>>,
       <<126579, 1, <<>>>>, <<126580, 3, <<1588>>>>, <<126581, 3, <<1578>>>>,
       <<126582, 3, <<1579>>>>, <<126583, 3, <<1582>>>>, <<126584, 1, <<>>>>,
       <<126585, 3, <<1590>>>>, <<126586, 3, <<1592>>>>, <<126587, 3, <<1594>>>>,
       <<126588, 3, <<1646>>>>, <<126589, 1, <<>>>>, <<126590, 3, <<1697>>>>, <<126591, 1, <<>>>>,
       <<126592, 3, <<1575>>>>, <<126593, 3, <<1576>>>>, <<126594, 3, <<1580>>>>,
       <<126595, 3, <<1583>>>>, <<126596, 3, <<1607>>>>, <<126597, 3, <<1608>>>>,
       <<126598, 3, <<1586>>>>, <<126599, 3, <<1581>>>>, <<126600, 3, <<1591>>>>,
       <<126601, 3, <<1610>>>>, <<126602, 1, <<>>>>, <<126603, 3, <<1604>>>>,
       <<126604, 3, <<1605>>>>, <<126605, 3, <<1606>>>>, <<126606, 3, <<1587>>>>,
       <<126607, 3, <<1593>>>>, <<126608, 3, <<1601>>>>, <<126609, 3, <<1589>>>>,
       <<126610, 3, <<1602>>>>, <<126611, 3, <<1585>>>>, <<126612, 3, <<1588>>>>,
       <<126613, 3, <<1578>>>>, <<126614, 3, <<1579>>>>, <<126615, 3, <<1582>>>>,
       <<126616, 3, <<1584>>>>, <<126617, 3, <<1590>>>>, <<126618, 3, <<1592>>>>,
       <<126619, 3, <<1594>>>>, <<126620, 1, <<>>>>, <<126625, 3, <<1576>>>>,
       <<126626, 3, <<1580>>>>, <<126627, 3, <<1583>>>>, <<126628, 1, <<>>>>,
       <<126629, 3, <<1608>>>>, <<126630, 3, <<1586>>>>, <<126631, 3, <<1581>>>>,
       <<126632, 3, <<1591>>>>, <<126633, 3, <<1610>>>>, <<126634, 1, <<>>>>,
       <<126635, 3, <<1604>>>>, <<126636, 3, <<1605>>>>, <<126637, 3, <<1606>>>>,
       <<126638, 3, <<1587>>>>, <<126639, 3, <<1593>>>>, <<126640, 3, <<1601>>>>,
       <<126641, 3, <<1589>>>>, <<126642, 3, <<1602>>>>, <<126643, 3, <<1585>>>>,
       <<126644, 3, <<1588>>>>, <<126645, 3, <<1578>>>>, <<126646, 3, <<1579>>>>,
       <<126647, 3, <<1582>>>>, <<126648, 3, <<1584>>>>, <<126649, 3, <<1590>>>>,
       <<126650, 3, <<1592>>>>, <<126651, 3, <<1594>>>>, <<126652, 1, <<>>>>, <<126704, 0, <<>>>>,
       <<126706, 1, <<>>>>, <<126976, 0, <<>>>>, <<127020, 1, <<>>>>, <<127024, 0, <<>>>>,
       <<127124, 1, <<>>>>, <<127136, 0, <<>>>>, <<127151, 1, <<>>>>, <<127153, 0, <<>>>>,
       <<127168, 1, <<>>>>, <<127169, 0, <<>>>>, <<127184, 1, <<>>>>, <<127185, 0, <<>>>>,
       <<127222, 1, <<>>>>, <<127233, 3, <<48, 44>>>>, <<127234, 3, <<49, 44>>>>,
       <<127235, 3, <<50, 44>>>>, <<127236, 3, <<51, 44>>>>, <<127237, 3, <<52, 44>>>>,
       <<127238, 3, <<53, 44>>>>, <<127239, 3, <<54, 44>>>>, <<127240, 3, <<55, 44>>>>,
       <<127241, 3, <<56, 44>>>>, <<127242, 3, <<57, 44>>>>, <<127243, 0, <<>>>>,
       <<127248, 3, <<40, 97, 41>>>>, <<127249, 3, <<40, 98, 41>>>>, <<127250, 3, <<40, 99, 41>>>>,
       <<127251, 3, <<40, 100, 41>>>>, <<127252, 3, <<40, 101, 41>>>>,
       <<127253, 3, <<40, 102, 41>>>>, <<127254, 3, <<40, 103, 41>>>>,
       <<127255, 3, <<40, 104, 41>>>>, <<127256, 3, <<40, 105, 41>>>>,
       <<127257, 3, <<40, 106, 41>>>>, <<127258, 3, <<40, 107, 41>>>>,
       <<127259, 3, <<40, 108, 41>>>>, <<127260, 3, <<40, 109, 41>>>>,
       <<127261, 3, <<40, 110, 41>>>>, <<127262, 3, <<40, 111, 41>>>>,
       <<127263, 3, <<40, 112, 41>>>>, <<127264, 3, <<40, 113, 41>>>>,
       <<127265, 3, <<40, 114, 41>>>>, <<127266, 3, <<40, 115, 41>>>>,
       <<127267, 3, <<40, 116, 41>>>>, <<127268, 3, <<40, 117, 41>>>>,
       <<127269, 3, <<40, 118, 41>>>>, <<127270, 3, <<40, 119, 41>>>>,
       <<127271, 3, <<40, 120, 41>>>>, <<127272, 3, <<40, 121, 41>>>>,
       <<127273, 3, <<40, 122, 41>>>>, <<127274, 3, <<12308, 115, 12309>>>>, <<127275, 3, <<99>>>>,
       <<127276, 3, <<114>>>>, <<127277, 3, <<99, 100>>>>, <<127278, 3, <<119, 122>>>>,
       <<127279, 0, <<>>>>, <<127280, 3, <<97>>>>, <<127281, 3, <<98>>>>, <<127282, 3, <<99>>>>,
       <<127283, 3, <<100>>>>, <<127284, 3, <<101>>>>, <<127285, 3, <<102>>>>,
       <<127286, 3, <<103>>>>, <<127287, 3, <<104>>>>, <<127288, 3, <<105>>>>,
       <<127289, 3, <<106>>>>, <<127290, 3, <<107>>>>, <<127291, 3, <<108>>>>,
       <<127292, 3, <<109>>>>, <<127293, 3, <<110>>>>, <<127294, 3, <<111>>>>,
       <<127295, 3, <<112>>>>, <<127296, 3, <<113>>>>, <<127297, 3, <<114>>>>,
       <<127298, 3, <<115>>>>, <<127299, 3, <<116>>>>, <<127300, 3, <<117>>>>,
       <<127301, 3, <<118>>>>, <<127302, 3, <<119>>>>, <<127303, 3, <<120>>>>,
       <<127304, 3, <<121>>>>, <<127305, 3, <<122>>>>, <<127306, 3, <<104, 118>>>>,
       <<127307, 3, <<109, 118>>>>, <<127308, 3, <<115, 100>>>>, <<127309, 3, <<115, 115>>>>,
       <<127310, 3, <<112, 112, 118>>>>, <<127311, 3, <<119, 99>>>>, <<127312, 0, <<>>>>,
       <<127338, 3, <<109, 99>>>>, <<127339, 3, <<109, 100>>>>, <<127340, 3, <<109, 114>>>>,
       <<127341, 0, <<>>>>, <<127376, 3, <<100, 106>>>>, <<127377, 0, <<>>>>, <<127406, 1, <<>>>>,
       <<127462, 0, <<>>>>, <<127488, 3, <<12411, 12363>>>>, <<127489, 3, <<12467, 12467>>>>,
       <<127490, 3, <<12469>>>>, <<127491, 1, <<>>>>, <<127504, 3, <<25163>>>>,
       <<127505, 3, <<23383>>>>, <<127506, 3, <<21452>>>>, <<127507, 3, <<12487>>>>,
       <<127508, 3, <<20108>>>>, <<127509, 3, <<22810>>>>, <<127510, 3, <<35299>>>>,
       <<127511, 3, <<22825>>>>, <<127512, 3, <<20132>>>>, <<127513, 3, <<26144>>>>,
       <<127514, 3, <<28961>>>>, <<127515, 3, <<26009>>>>, <<127516, 3, <<21069>>>>,
       <<127517, 3, <<24460>>>>, <<127518, 3, <<20877>>>>, <<127519, 3, <<26032>>>>,
       <<127520, 3, <<21021>>>>, <<127521, 3, <<32066>>>>, <<127522, 3, <<29983>>>>,
       <<127523, 3, <<36009>>>>, <<127524, 3, <<22768>>>>, <<127525, 3, <<21561>>>>,
       <<127526, 3, <<28436>>>>, <<127527, 3, <<25237>>>>, <<127528, 3, <<25429>>>>,
       <<127529, 3, <<19968>>>>, <<127530, 3, <<19977>>>>, <<127531, 3, <<36938>>>>,
       <<127532, 3, <<24038>>>>, <<127533, 3, <<20013>>>>, <<127534, 3, <<21491>>>>,
       <<127535, 3, <<25351>>>>, <<127536, 3, <<36208>>>>, <<127537, 3, <<25171>>>>,
       <<127538, 3, <<31105>>>>, <<127539, 3, <<31354>>>>, <<127540, 3, <<21512>>>>,
       <<127541, 3, <<28288>>>>, <<127542, 3, <<26377>>>>, <<127543, 3, <<26376>>>>,
       <<127544, 3, <<30003>>>>, <<127545, 3, <<21106>>>>, <<127546, 3, <<21942>>>>,
       <<127547, 3, <<37197>>>>, <<127548, 1, <<>>>>, <<127552, 3, <<12308, 26412, 12309>>>>,
       <<127553, 3, <<12308, 19977, 12309>>>>, <<127554, 3, <<12308, 20108, 12309>>>>,
       <<127555, 3, <<12308, 23433, 12309>>>>, <<127556, 3, <<12308, 28857, 12309>>>>,
       <<127557, 3, <<12308, 25171, 12309>>>>, <<127558, 3, <<12308, 30423, 12309>>>>,
       <<127559, 3, <<12308, 21213, 12309>>>>, <<127560, 3, <<12308, 25943, 12309>>>>,
       <<127561, 1, <<>>>>, <<127568, 3, <<24471>>>>, <<127569, 3, <<21487>>>>,
       <<127570, 1, <<>>>>, <<127584, 0, <<>>>>, <<127590, 1, <<>>>>, <<127744, 0, <<>>>>,
       <<128728, 1, <<>>>>, <<128732, 0, <<>>>>, <<128749, 1, <<>>>>, <<128752, 0, <<>>>>,
       <<128765, 1, <<>>>>, <<128768, 0, <<>>>>, <<128887, 1, <<>>>>, <<128891, 0, <<>>>>,
       <<128986, 1, <<>>>>, <<128992, 0, <<>>>>, <<129004, 1, <<>>>>, <<129008, 0, <<>>>>,
       <<129009, 1, <<>>>>, <<129024, 0, <<>>>>, <<129036, 1, <<>>>>, <<129040, 0, <<>>>>,
       <<129096, 1, <<>>>>, <<129104, 0, <<>>>>, <<129114, 1, <<>>>>, <<129120, 0, <<>>>>,
       <<129160, 1, <<>>>>, <<129168, 0, <<>>>>, <<129198, 1, <<>>>>, <<129200, 0, <<>>>>,
       <<129202, 1, <<>>>>, <<129280, 0, <<>>>>, <<129620, 1, <<>>>>, <<129632, 0, <<>>>>,
       <<129646, 1, <<>>>>, <<129648, 0, <<>>>>, <<129661, 1, <<>>>>, <<129664, 0, <<>>>>,
       <<129673, 1, <<>>>>, <<129680, 0, <<>>>>, <<129726, 1, <<>>>>, <<129727, 0, <<>>>>,
       <<129734, 1, <<>>>>, <<129742, 0, <<>>>>, <<129756, 1, <<>>>>, <<129760, 0, <<>>>>,
       <<129769, 1, <<>>>>, <<129776, 0, <<>>>>, <<129785, 1, <<>>>>, <<129792, 0, <<>>>>,
       <<129939, 1, <<>>>>, <<129940, 0, <<>>>>, <<129995, 1, <<>>>>, <<130032, 3, <<48>>>>,
       <<130033, 3, <<49>>>>, <<130034, 3, <<50>>>>, <<130035, 3, <<51>>>>, <<130036, 3, <<52>>>>,
       <<130037, 3, <<53>>>>, <<130038, 3, <<54>>>>, <<130039, 3, <<55>>>>, <<130040, 3, <<56>>>>,
       <<130041, 3, <<57>>>>, <<130042, 1, <<>>>>, <<131072, 0, <<>>>>, <<173792, 1, <<>>>>,
       <<173824, 0, <<>>>>, <<177978, 1, <<>>>>, <<177984, 0, <<>>>>, <<178206, 1, <<>>>>,
       <<178208, 0, <<>>>>, <<183970, 1, <<>>>>, <<183984, 0, <<>>>>, <<191457, 1, <<>>>>,
       <<194560, 3, <<20029>>>>, <<194561, 3, <<20024>>>>, <<194562, 3, <<20033>>>>,
       <<194563, 3, <<131362>>>>, <<194564, 3, <<20320>>>>, <<194565, 3, <<20398>>>>,
       <<194566, 3, <<20411>>>>, <<194567, 3, <<20482>>>>, <<194568, 3, <<20602>>>>,
       <<194569, 3, <<20633>>>>, <<194570, 3, <<20711>>>>, <<194571, 3, <<20687>>>>,
       <<194572, 3, <<13470>>>>, <<194573, 3, <<132666>>>>, <<194574, 3, <<20813>>>>,
       <<194575, 3, <<20820>>>>, <<194576, 3, <<20836>>>>, <<194577, 3, <<20855>>>>,
       <<194578, 3, <<132380>>>>, <<194579, 3, <<13497>>>>, <<194580, 3, <<20839>>>>,
       <<194581, 3, <<20877>>>>, <<194582, 3, <<132427>>>>, <<194583, 3, <<20887>>>>,
       <<194584, 3, <<20900>>>>, <<194585, 3, <<20172>>>>, <<194586, 3, <<20908>>>>,
       <<194587, 3, <<20917>>>>, <<194588, 3, <<168415>>>>, <<194589, 3, <<20981>>>>,
       <<194590, 3, <<20995>>>>, <<194591, 3, <<13535>>>>, <<194592, 3, <<21051>>>>,
       <<194593, 3, <<21062>>>>, <<194594, 3, <<21106>>>>, <<194595, 3, <<21111>>>>,
       <<194596, 3, <<13589>>>>, <<194597, 3, <<21191>>>>, <<194598, 3, <<21193>>>>,
       <<194599, 3, <<21220>>>>, <<194600, 3, <<21242>>>>, <<194601, 3, <<21253>>>>,
       <<194602, 3, <<21254>>>>, <<194603, 3, <<21271>>>>, <<194604, 3, <<21321>>>>,
       <<194605, 3, <<21329>>>>, <<194606, 3, <<21338>>>>, <<194607, 3, <<21363>>>>,
       <<194608, 3, <<21373>>>>, <<194609, 3, <<21375>>>>, <<194612, 3, <<133676>>>>,
       <<194613, 3, <<28784>>>>, <<194614, 3, <<21450>>>>, <<194615, 3, <<21471>>>>,
       <<194616, 3, <<133987>>>>, <<194617, 3, <<21483>>>>, <<194618, 3, <<21489>>>>,
       <<194619, 3, <<21510>>>>, <<194620, 3, <<21662>>>>, <<194621, 3, <<21560>>>>,
       <<194622, 3, <<21576>>>>, <<194623, 3, <<21608>>>>, <<194624, 3, <<21666>>>>,
       <<194625, 3, <<21750>>>>, <<194626, 3, <<21776>>>>, <<194627, 3, <<21843>>>>,
       <<194628, 3, <<21859>>>>, <<194629, 3, <<21892>>>>, <<194631, 3, <<21913>>>>,
       <<194632, 3, <<21931>>>>, <<194633, 3, <<21939>>>>, <<194634, 3, <<21954>>>>,
       <<194635, 3, <<22294>>>>, <<194636, 3, <<22022>>>>, <<194637, 3, <<22295>>>>,
       <<194638, 3, <<22097>>>>, <<194639, 3, <<22132>>>>, <<194640, 3, <<20999>>>>,
       <<194641, 3, <<22766>>>>, <<194642, 3, <<22478>>>>, <<194643, 3, <<22516>>>>,
       <<194644, 3, <<22541>>>>, <<194645, 3, <<22411>>>>, <<194646, 3, <<22578>>>>,
       <<194647, 3, <<22577>>>>, <<194648, 3, <<22700>>>>, <<194649, 3, <<136420>>>>,
       <<194650, 3, <<22770>>>>, <<194651, 3, <<22775>>>>, <<194652, 3, <<22790>>>>,
       <<194653, 3, <<22810>>>>, <<194654, 3, <<22818>>>>, <<194655, 3, <<22882>>>>,
       <<194656, 3, <<136872>>>>, <<194657, 3, <<136938>>>>, <<194658, 3, <<23020>>>>,
       <<194659, 3, <<23067>>>>, <<194660, 3, <<23079>>>>, <<194661, 3, <<23000>>>>,
       <<194662, 3, <<23142>>>>, <<194663, 3, <<14062>>>>, <<194664, 1, <<>>>>,
       <<194665, 3, <<23304>>>>, <<194666, 3, <<23358>>>>, <<194668, 3, <<137672>>>>,
       <<194669, 3, <<23491>>>>, <<194670, 3, <<23512>>>>, <<194671, 3, <<23527>>>>,
       <<194672, 3, <<23539>>>>, <<194673, 3, <<138008>>>>, <<194674, 3, <<23551>>>>,
       <<194675, 3, <<23558>>>>, <<194676, 1, <<>>>>, <<194677, 3, <<23586>>>>,
       <<194678, 3, <<14209>>>>, <<194679, 3, <<23648>>>>, <<194680, 3, <<23662>>>>,
       <<194681, 3, <<23744>>>>, <<194682, 3, <<23693>>>>, <<194683, 3, <<138724>>>>,
       <<194684, 3, <<23875>>>>, <<194685, 3, <<138726>>>>, <<194686, 3, <<23918>>>>,
       <<194687, 3, <<23915>>>>, <<194688, 3, <<23932>>>>, <<194689, 3, <<24033>>>>,
       <<194690, 3, <<24034>>>>, <<194691, 3, <<14383>>>>, <<194692, 3, <<24061>>>>,
       <<194693, 3, <<24104>>>>, <<194694, 3, <<24125>>>>, <<194695, 3, <<24169>>>>,
       <<194696, 3, <<14434>>>>, <<194697, 3, <<139651>>>>, <<194698, 3, <<14460>>>>,
       <<194699, 3, <<24240>>>>, <<194700, 3, <<24243>>>>, <<194701, 3, <<24246>>>>,
       <<194702, 3, <<24266>>>>, <<194703, 3, <<172946>>>>, <<194704, 3, <<24318>>>>,
       <<194705, 3, <<140081>>>>, <<194707, 3, <<33281>>>>, <<194708, 3, <<24354>>>>,
       <<194710, 3, <<14535>>>>, <<194711, 3, <<144056>>>>, <<194712, 3, <<156122>>>>,
       <<194713, 3, <<24418>>>>, <<194714, 3, <<24427>>>>, <<194715, 3, <<14563>>>>,
       <<194716, 3, <<24474>>>>, <<194717, 3, <<24525>>>>, <<194718, 3, <<24535>>>>,
       <<194719, 3, <<24569>>>>, <<194720, 3, <<24705>>>>, <<194721, 3, <<14650>>>>,
       <<194722, 3, <<14620>>>>, <<194723, 3, <<24724>>>>, <<194724, 3, <<141012>>>>,
       <<194725, 3, <<24775>>>>, <<194726, 3, <<24904>>>>, <<194727, 3, <<24908>>>>,
       <<194728, 3, <<24910>>>>, <<194729, 3, <<24908>>>>, <<194730, 3, <<24954>>>>,
       <<194731, 3, <<24974>>>>, <<194732, 3, <<25010>>>>, <<194733, 3, <<24996>>>>,
       <<194734, 3, <<25007>>>>, <<194735, 3, <<25054>>>>, <<194736, 3, <<25074>>>>,
       <<194737, 3, <<25078>>>>, <<194738, 3, <<25104>>>>, <<194739, 3, <<25115>>>>,
       <<194740, 3, <<25181>>>>, <<194741, 3, <<25265>>>>, <<194742, 3, <<25300>>>>,
       <<194743, 3, <<25424>>>>, <<194744, 3, <<142092>>>>, <<194745, 3, <<25405>>>>,
       <<194746, 3, <<25340>>>>, <<194747, 3, <<25448>>>>, <<194748, 3, <<25475>>>>,
       <<194749, 3, <<25572>>>>, <<194750, 3, <<142321>>>>, <<194751, 3, <<25634>>>>,
       <<194752, 3, <<25541>>>>, <<194753, 3, <<25513>>>>, <<194754, 3, <<14894>>>>,
       <<194755, 3, <<25705>>>>, <<194756, 3, <<25726>>>>, <<194757, 3, <<25757>>>>,
       <<194758, 3, <<25719>>>>, <<194759, 3, <<14956>>>>, <<194760, 3, <<25935>>>>,
       <<194761, 3, <<25964>>>>, <<194762, 3, <<143370>>>>, <<194763, 3, <<26083>>>>,
       <<194764, 3, <<26360>>>>, <<194765, 3, <<26185>>>>, <<194766, 3, <<15129>>>>,
       <<194767, 3, <<26257>>>>, <<194768, 3, <<15112>>>>, <<194769, 3, <<15076>>>>,
       <<194770, 3, <<20882>>>>, <<194771, 3, <<20885>>>>, <<194772, 3, <<26368>>>>,
       <<194773, 3, <<26268>>>>, <<194774, 3, <<32941>>>>, <<194775, 3, <<17369>>>>,
       <<194776, 3, <<26391>>>>, <<194777, 3, <<26395>>>>, <<194778, 3, <<26401>>>>,
       <<194779, 3, <<26462>>>>, <<194780, 3, <<26451>>>>, <<194781, 3, <<144323>>>>,
       <<194782, 3, <<15177>>>>, <<194783, 3, <<26618>>>>, <<194784, 3, <<26501>>>>,
       <<194785, 3, <<26706>>>>, <<194786, 3, <<26757>>>>, <<194787, 3, <<144493>>>>,
       <<194788, 3, <<26766>>>>, <<194789, 3, <<26655>>>>, <<194790, 3, <<26900>>>>,
       <<194791, 3, <<15261>>>>, <<194792, 3, <<26946>>>>, <<194793, 3, <<27043>>>>,
       <<194794, 3, <<27114>>>>, <<194795, 3, <<27304>>>>, <<194796, 3, <<145059>>>>,
       <<194797, 3, <<27355>>>>, <<194798, 3, <<15384>>>>, <<194799, 3, <<27425>>>>,
       <<194800, 3, <<145575>>>>, <<194801, 3, <<27476>>>>, <<194802, 3, <<15438>>>>,
       <<194803, 3, <<27506>>>>, <<194804, 3, <<27551>>>>, <<194805, 3, <<27578>>>>,
       <<194806, 3, <<27579>>>>, <<194807, 3, <<146061>>>>, <<194808, 3, <<138507>>>>,
       <<194809, 3, <<146170>>>>, <<194810, 3, <<27726>>>>, <<194811, 3, <<146620>>>>,
       <<194812, 3, <<27839>>>>, <<194813, 3, <<27853>>>>, <<194814, 3, <<27751>>>>,
       <<194815, 3, <<27926>>>>, <<194816, 3, <<27966>>>>, <<194817, 3, <<28023>>>>,
       <<194818, 3, <<27969>>>>, <<194819, 3, <<28009>>>>, <<194820, 3, <<28024>>>>,
       <<194821, 3, <<28037>>>>, <<194822, 3, <<146718>>>>, <<194823, 3, <<27956>>>>,
       <<194824, 3, <<28207>>>>, <<194825, 3, <<28270>>>>, <<194826, 3, <<15667>>>>,
       <<194827, 3, <<28363>>>>, <<194828, 3, <<28359>>>>, <<194829, 3, <<147153>>>>,
       <<194830, 3, <<28153>>>>, <<194831, 3, <<28526>>>>, <<194832, 3, <<147294>>>>,
       <<194833, 3, <<147342>>>>, <<194834, 3, <<28614>>>>, <<194835, 3, <<28729>>>>,
       <<194836, 3, <<28702>>>>, <<194837, 3, <<28699>>>>, <<194838, 3, <<15766>>>>,
       <<194839, 3, <<28746>>>>, <<194840, 3, <<28797>>>>, <<194841, 3, <<28791>>>>,
       <<194842, 3, <<28845>>>>, <<194843, 3, <<132389>>>>, <<194844, 3, <<28997>>>>,
       <<194845, 3, <<148067>>>>, <<194846, 3, <<29084>>>>, <<194847, 1, <<>>>>,
       <<194848, 3, <<29224>>>>, <<194849, 3, <<29237>>>>, <<194850, 3, <<29264>>>>,
       <<194851, 3, <<149000>>>>, <<194852, 3, <<29312>>>>, <<194853, 3, <<29333>>>>,
       <<194854, 3, <<149301>>>>, <<194855, 3, <<149524>>>>, <<194856, 3, <<29562>>>>,
       <<194857, 3, <<29579>>>>, <<194858, 3, <<16044>>>>, <<194859, 3, <<29605>>>>,
       <<194860, 3, <<16056>>>>, <<194862, 3, <<29767>>>>, <<194863, 3, <<29788>>>>,
       <<194864, 3, <<29809>>>>, <<194865, 3, <<29829>>>>, <<194866, 3, <<29898>>>>,
       <<194867, 3, <<16155>>>>, <<194868, 3, <<29988>>>>, <<194869, 3, <<150582>>>>,
       <<194870, 3, <<30014>>>>, <<194871, 3, <<150674>>>>, <<194872, 3, <<30064>>>>,
       <<194873, 3, <<139679>>>>, <<194874, 3, <<30224>>>>, <<194875, 3, <<151457>>>>,
       <<194876, 3, <<151480>>>>, <<194877, 3, <<151620>>>>, <<194878, 3, <<16380>>>>,
       <<194879, 3, <<16392>>>>, <<194880, 3, <<30452>>>>, <<194881, 3, <<151795>>>>,
       <<194882, 3, <<151794>>>>, <<194883, 3, <<151833>>>>, <<194884, 3, <<151859>>>>,
       <<194885, 3, <<30494>>>>, <<194886, 3, <<30495>>>>, <<194888, 3, <<30538>>>>,
       <<194889, 3, <<16441>>>>, <<194890, 3, <<30603>>>>, <<194891, 3, <<16454>>>>,
       <<194892, 3, <<16534>>>>, <<194893, 3, <<152605>>>>, <<194894, 3, <<30798>>>>,
       <<194895, 3, <<30860>>>>, <<194896, 3, <<30924>>>>, <<194897, 3, <<16611>>>>,
       <<194898, 3, <<153126>>>>, <<194899, 3, <<31062>>>>, <<194900, 3, <<153242>>>>,
       <<194901, 3, <<153285>>>>, <<194902, 3, <<31119>>>>, <<194903, 3, <<31211>>>>,
       <<194904, 3, <<16687>>>>, <<194905, 3, <<31296>>>>, <<194906, 3, <<31306>>>>,
       <<194907, 3, <<31311>>>>, <<194908, 3, <<153980>>>>, <<194909, 3, <<154279>>>>,
       <<194911, 1, <<>>>>, <<194912, 3, <<16898>>>>, <<194913, 3, <<154539>>>>,
       <<194914, 3, <<31686>>>>, <<194915, 3, <<31689>>>>, <<194916, 3, <<16935>>>>,
       <<194917, 3, <<154752>>>>, <<194918, 3, <<31954>>>>, <<194919, 3, <<17056>>>>,
       <<194920, 3, <<31976>>>>, <<194921, 3, <<31971>>>>, <<194922, 3, <<32000>>>>,
       <<194923, 3, <<155526>>>>, <<194924, 3, <<32099>>>>, <<194925, 3, <<17153>>>>,
       <<194926, 3, <<32199>>>>, <<194927, 3, <<32258>>>>, <<194928, 3, <<32325>>>>,
       <<194929, 3, <<17204>>>>, <<194930, 3, <<156200>>>>, <<194931, 3, <<156231>>>>,
       <<194932, 3, <<17241>>>>, <<194933, 3, <<156377>>>>, <<194934, 3, <<32634>>>>,
       <<194935, 3, <<156478>>>>, <<194936, 3, <<32661>>>>, <<194937, 3, <<32762>>>>,
       <<194938, 3, <<32773>>>>, <<194939, 3, <<156890>>>>, <<194940, 3, <<156963>>>>,
       <<194941, 3, <<32864>>>>, <<194942, 3, <<157096>>>>, <<194943, 3, <<32880>>>>,
       <<194944, 3, <<144223>>>>, <<194945, 3, <<17365>>>>, <<194946, 3, <<32946>>>>,
       <<194947, 3, <<33027>>>>, <<194948, 3, <<17419>>>>, <<194949, 3, <<33086>>>>,
       <<194950, 3, <<23221>>>>, <<194951, 3, <<157607>>>>, <<194952, 3, <<157621>>>>,
       <<194953, 3, <<144275>>>>, <<194954, 3, <<144284>>>>, <<194955, 3, <<33281>>>>,
       <<194956, 3, <<33284>>>>, <<194957, 3, <<36766>>>>, <<194958, 3, <<17515>>>>,
       <<194959, 3, <<33425>>>>, <<194960, 3, <<33419>>>>, <<194961, 3, <<33437>>>>,
       <<194962, 3, <<21171>>>>, <<194963, 3, <<33457>>>>, <<194964, 3, <<33459>>>>,
       <<194965, 3, <<33469>>>>, <<194966, 3, <<33510>>>>, <<194967, 3, <<158524>>>>,
       <<194968, 3, <<33509>>>>, <<194969, 3, <<33565>>>>, <<194970, 3, <<33635>>>>,
       <<194971, 3, <<33709>>>>, <<194972, 3, <<33571>>>>, <<194973, 3, <<33725>>>>,
       <<194974, 3, <<33767>>>>, <<194975, 3, <<33879>>>>, <<194976, 3, <<33619>>>>,
       <<194977, 3, <<33738>>>>, <<194978, 3, <<33740>>>>, <<194979, 3, <<33756>>>>,
       <<194980, 3, <<158774>>>>, <<194981, 3, <<159083>>>>, <<194982, 3, <<158933>>>>,
       <<194983, 3, <<17707>>>>, <<194984, 3, <<34033>>>>, <<194985, 3, <<34035>>>>,
       <<194986, 3, <<34070>>>>, <<194987, 3, <<160714>>>>, <<194988, 3, <<34148>>>>,
       <<194989, 3, <<159532>>>>, <<194990, 3, <<17757>>>>, <<194991, 3, <<17761>>>>,
       <<194992, 3, <<159665>>>>, <<194993, 3, <<159954>>>>, <<194994, 3, <<17771>>>>,
       <<194995, 3, <<34384>>>>, <<194996, 3, <<34396>>>>, <<194997, 3, <<34407>>>>,
       <<194998, 3, <<34409>>>>, <<194999, 3, <<34473>>>>, <<195000, 3, <<34440>>>>,
       <<195001, 3, <<34574>>>>, <<195002, 3, <<34530>>>>, <<195003, 3, <<34681>>>>,
       <<195004, 3, <<34600>>>>, <<195005, 3, <<34667>>>>, <<195006, 3, <<34694>>>>,
       <<195007, 1, <<>>>>, <<195008, 3, <<34785>>>>, <<195009, 3, <<34817>>>>,
       <<195010, 3, <<17913>>>>, <<195011, 3, <<34912>>>>, <<195012, 3, <<34915>>>>,
       <<195013, 3, <<161383>>>>, <<195014, 3, <<35031>>>>, <<195015, 3, <<35038>>>>,
       <<195016, 3, <<17973>>>>, <<195017, 3, <<35066>>>>, <<195018, 3, <<13499>>>>,
       <<195019, 3, <<161966>>>>, <<195020, 3, <<162150>>>>, <<195021, 3, <<18110>>>>,
       <<195022, 3, <<18119>>>>, <<195023, 3, <<35488>>>>, <<195024, 3, <<35565>>>>,
       <<195025, 3, <<35722>>>>, <<195026, 3, <<35925>>>>, <<195027, 3, <<162984>>>>,
       <<195028, 3, <<36011>>>>, <<195029, 3, <<36033>>>>, <<195030, 3, <<36123>>>>,
       <<195031, 3, <<36215>>>>, <<195032, 3, <<163631>>>>, <<195033, 3, <<133124>>>>,
       <<195034, 3, <<36299>>>>, <<195035, 3, <<36284>>>>, <<195036, 3, <<36336>>>>,
       <<195037, 3, <<133342>>>>, <<195038, 3, <<36564>>>>, <<195039, 3, <<36664>>>>,
       <<195040, 3, <<165330>>>>, <<195041, 3, <<165357>>>>, <<195042, 3, <<37012>>>>,
       <<195043, 3, <<37105>>>>, <<195044, 3, <<37137>>>>, <<195045, 3, <<165678>>>>,
       <<195046, 3, <<37147>>>>, <<195047, 3, <<37432>>>>, <<195048, 3, <<37591>>>>,
       <<195049, 3, <<37592>>>>, <<195050, 3, <<37500>>>>, <<195051, 3, <<37881>>>>,
       <<195052, 3, <<37909>>>>, <<195053, 3, <<166906>>>>, <<195054, 3, <<38283>>>>,
       <<195055, 3, <<18837>>>>, <<195056, 3, <<38327>>>>, <<195057, 3, <<167287>>>>,
       <<195058, 3, <<18918>>>>, <<195059, 3, <<38595>>>>, <<195060, 3, <<23986>>>>,
       <<195061, 3, <<38691>>>>, <<195062, 3, <<168261>>>>, <<195063, 3, <<168474>>>>,
       <<195064, 3, <<19054>>>>, <<195065, 3, <<19062>>>>, <<195066, 3, <<38880>>>>,
       <<195067, 3, <<168970>>>>, <<195068, 3, <<19122>>>>, <<195069, 3, <<169110>>>>,
       <<195070, 3, <<38923>>>>, <<195072, 3, <<38953>>>>, <<195073, 3, <<169398>>>>,
       <<195074, 3, <<39138>>>>, <<195075, 3, <<19251>>>>, <<195076, 3, <<39209>>>>,
       <<195077, 3, <<39335>>>>, <<195078, 3, <<39362>>>>, <<195079, 3, <<39422>>>>,
       <<195080, 3, <<19406>>>>, <<195081, 3, <<170800>>>>, <<195082, 3, <<39698>>>>,
       <<195083, 3, <<40000>>>>, <<195084, 3, <<40189>>>>, <<195085, 3, <<19662>>>>,
       <<195086, 3, <<19693>>>>, <<195087, 3, <<40295>>>>, <<195088, 3, <<172238>>>>,
       <<195089, 3, <<19704>>>>, <<195090, 3, <<172293>>>>, <<195091, 3, <<172558>>>>,
       <<195092, 3, <<172689>>>>, <<195093, 3, <<40635>>>>, <<195094, 3, <<19798>>>>,
       <<195095, 3, <<40697>>>>, <<195096, 3, <<40702>>>>, <<195097, 3, <<40709>>>>,
       <<195098, 3, <<40719>>>>, <<195099, 3, <<40726>>>>, <<195100, 3, <<40763>>>>,
       <<195101, 3, <<173568>>>>, <<195102, 1, <<>>>>, <<196608, 0, <<>>>>, <<201547, 1, <<>>>>,
       <<201552, 0, <<>>>>, <<205744, 1, <<>>>>, <<917760, 2, <<>>>>, <<918000, 1, <<>>>>
    >>

\* Properties of the code points as rows <<first code point, Bidi class,
\* mark, joining type, canonical combining class, virama>>. The Bidi class
\* is that of the direction table of the parser (Unicode 13.0), "X" for a
\* code point the table gives no direction or a class no label may hold;
\* mark is 1 for a code point on its list of combining marks (Unicode 13.0,
\* General_Category Mark) and virama 1 for one on its list of viramas
\* (Unicode 13.0, combining class 9); the joining type is "L", "R" or "D"
\* for a code point on its lists of left-, right- and dual-joining code
\* points, which hold the joining Arabic, Syriac, Mandaic, Mongolian and
\* Phags-pa letters of Unicode 6.1 but none of U+0767..U+084F and of
\* U+0856..U+0858, and "U" for any other. The canonical combining class is
\* that of the normalization (Unicode 15.0).
PropertyTable ==
    <<
       <<0, "BN", 0, "U", 0, 0>>, <<9, "X", 0, "U", 0, 0>>, <<14, "BN", 0, "U", 0, 0>>,
       <<28, "X", 0, "U", 0, 0>>, <<33, "ON", 0, "U", 0, 0>>, <<35, "ET", 0, "U", 0, 0>>,
       <<38, "ON", 0, "U", 0, 0>>, <<43, "ES", 0, "U", 0, 0>>, <<44, "CS", 0, "U", 0, 0>>,
       <<45, "ES", 0, "U", 0, 0>>, <<46, "CS", 0, "U", 0, 0>>, <<48, "EN", 0, "U", 0, 0>>,
       <<58, "CS", 0, "U", 0, 0>>, <<59, "ON", 0, "U", 0, 0>>, <<65, "L", 0, "U", 0, 0>>,
       <<91, "ON", 0, "U", 0, 0>>, <<97, "L", 0, "U", 0, 0>>, <<123, "ON", 0, "U", 0, 0>>,
       <<127, "BN", 0, "U", 0, 0>>, <<133, "X", 0, "U", 0, 0>>, <<134, "BN", 0, "U", 0, 0>>,
       <<160, "CS", 0, "U", 0, 0>>, <<161, "ON", 0, "U", 0, 0>>, <<162, "ET", 0, "U", 0, 0>>,
       <<166, "ON", 0, "U", 0, 0>>, <<170, "L", 0, "U", 0, 0>>, <<171, "ON", 0, "U", 0, 0>>,
       <<173, "BN", 0, "U", 0, 0>>, <<174, "ON", 0, "U", 0, 0>>, <<176, "ET", 0, "U", 0, 0>>,
       <<178, "EN", 0, "U", 0, 0>>, <<180, "ON", 0, "U", 0, 0>>, <<181, "L", 0, "U", 0, 0>>,
       <<182, "ON", 0, "U", 0, 0>>, <<185, "EN", 0, "U", 0, 0>>, <<186, "L", 0, "U", 0, 0>>,
       <<187, "ON", 0, "U", 0, 0>>, <<192, "L", 0, "U", 0, 0>>, <<215, "ON", 0, "U", 0, 0>>,
       <<216, "L", 0, "U", 0, 0>>, <<247, "ON", 0, "U", 0, 0>>, <<248, "L", 0, "U", 0, 0>>,
       <<697, "ON", 0, "U", 0, 0>>, <<699, "L", 0, "U", 0, 0>>, <<706, "ON", 0, "U", 0, 0>>,
       <<720, "L", 0, "U", 0, 0>>, <<722, "ON", 0, "U", 0, 0>>, <<736, "L", 0, "U", 0, 0>>,
       <<741, "ON", 0, "U", 0, 0>>, <<750, "L", 0, "U", 0, 0>>, <<751, "ON", 0, "U", 0, 0>>,
       <<768, "NSM", 1, "U", 230, 0>>, <<789, "NSM", 1, "U", 232, 0>>,
       <<790, "NSM", 1, "U", 220, 0>>, <<794, "NSM", 1, "U", 232, 0>>,
       <<795, "NSM", 1, "U", 216, 0>>, <<796, "NSM", 1, "U", 220, 0>>,
       <<801, "NSM", 1, "U", 202, 0>>, <<803, "NSM", 1, "U", 220, 0>>,
       <<807, "NSM", 1, "U", 202, 0>>, <<809, "NSM", 1, "U", 220, 0>>,
       <<820, "NSM", 1, "U", 1, 0>>, <<825, "NSM", 1, "U", 220, 0>>,
       <<829, "NSM", 1, "U", 230, 0>>, <<837, "NSM", 1, "U", 240, 0>>,
       <<838, "NSM", 1, "U", 230, 0>>, <<839, "NSM", 1, "U", 220, 0>>,
       <<842, "NSM", 1, "U", 230, 0>>, <<845, "NSM", 1, "U", 220, 0>>,
       <<847, "NSM", 1, "U", 0, 0>>, <<848, "NSM", 1, "U", 230, 0>>,
       <<851, "NSM", 1, "U", 220, 0>>, <<855, "NSM", 1, "U", 230, 0>>,
       <<856, "NSM", 1, "U", 232, 0>>, <<857, "NSM", 1, "U", 220, 0>>,
       <<859, "NSM", 1, "U", 230, 0>>, <<860, "NSM", 1, "U", 233, 0>>,
       <<861, "NSM", 1, "U", 234, 0>>, <<863, "NSM", 1, "U", 233, 0>>,
       <<864, "NSM", 1, "U", 234, 0>>, <<866, "NSM", 1, "U", 233, 0>>,
       <<867, "NSM", 1, "U", 230, 0>>, <<880, "L", 0, "U", 0, 0>>, <<884, "ON", 0, "U", 0, 0>>,
       <<886, "L", 0, "U", 0, 0>>, <<888, "X", 0, "U", 0, 0>>, <<890, "L", 0, "U", 0, 0>>,
       <<894, "ON", 0, "U", 0, 0>>, <<895, "L", 0, "U", 0, 0>>, <<896, "X", 0, "U", 0, 0>>,
       <<900, "ON", 0, "U", 0, 0>>, <<902, "L", 0, "U", 0, 0>>, <<903, "ON", 0, "U", 0, 0>>,
       <<904, "L", 0, "U", 0, 0>>, <<907, "X", 0, "U", 0, 0>>, <<908, "L", 0, "U", 0, 0>>,
       <<909, "X", 0, "U", 0, 0>>, <<910, "L", 0, "U", 0, 0>>, <<930, "X", 0, "U", 0, 0>>,
       <<931, "L", 0, "U", 0, 0>>, <<1014, "ON", 0, "U", 0, 0>>, <<1015, "L", 0, "U", 0, 0>>,
       <<1155, "NSM", 1, "U", 230, 0>>, <<1160, "NSM", 1, "U", 0, 0>>, <<1162, "L", 0, "U", 0, 0>>,
       <<1328, "X", 0, "U", 0, 0>>, <<1329, "L", 0, "U", 0, 0>>, <<1367, "X", 0, "U", 0, 0>>,
       <<1369, "L", 0, "U", 0, 0>>, <<1418, "ON", 0, "U", 0, 0>>, <<1419, "X", 0, "U", 0, 0>>,
       <<1421, "ON", 0, "U", 0, 0>>, <<1423, "ET", 0, "U", 0, 0>>, <<1424, "X", 0, "U", 0, 0>>,
       <<1425, "NSM", 1, "U", 220, 0>>, <<1426, "NSM", 1, "U", 230, 0>>,
       <<1430, "NSM", 1, "U", 220, 0>>, <<1431, "NSM", 1, "U", 230, 0>>,
       <<1434, "NSM", 1, "U", 222, 0>>, <<1435, "NSM", 1, "U", 220, 0>>,
       <<1436, "NSM", 1, "U", 230, 0>>, <<1442, "NSM", 1, "U", 220, 0>>,
       <<1448, "NSM", 1, "U", 230, 0>>, <<1450, "NSM", 1, "U", 220, 0>>,
       <<1451, "NSM", 1, "U", 230, 0>>, <<1453, "NSM", 1, "U", 222, 0>>,
       <<1454, "NSM", 1, "U", 228, 0>>, <<1455, "NSM", 1, "U", 230, 0>>,
       <<1456, "NSM", 1, "U", 10, 0>>, <<1457, "NSM", 1, "U", 11, 0>>,
       <<1458, "NSM", 1, "U", 12, 0>>, <<1459, "NSM", 1, "U", 13, 0>>,
       <<1460, "NSM", 1, "U", 14, 0>>, <<1461, "NSM", 1, "U", 15, 0>>,
       <<1462, "NSM", 1, "U", 16, 0>>, <<1463, "NSM", 1, "U", 17, 0>>,
       <<1464, "NSM", 1, "U", 18, 0>>, <<1465, "NSM", 1, "U", 19, 0>>,
       <<1467, "NSM", 1, "U", 20, 0>>, <<1468, "NSM", 1, "U", 21, 0>>,
       <<1469, "NSM", 1, "U", 22, 0>>, <<1470, "R", 0, "U", 0, 0>>, <<1471, "NSM", 1, "U", 23, 0>>,
       <<1472, "R", 0, "U", 0, 0>>, <<1473, "NSM", 1, "U", 24, 0>>, <<1474, "NSM", 1, "U", 25, 0>>,
       <<1475, "R", 0, "U", 0, 0>>, <<1476, "NSM", 1, "U", 230, 0>>,
       <<1477, "NSM", 1, "U", 220, 0>>, <<1478, "R", 0, "U", 0, 0>>,
       <<1479, "NSM", 1, "U", 18, 0>>, <<1480, "X", 0, "U", 0, 0>>, <<1488, "R", 0, "U", 0, 0>>,
       <<1515, "X", 0, "U", 0, 0>>, <<1519, "R", 0, "U", 0, 0>>, <<1525, "X", 0, "U", 0, 0>>,
       <<1536, "AN", 0, "U", 0, 0>>, <<1542, "ON", 0, "U", 0, 0>>, <<1544, "AL", 0, "U", 0, 0>>,
       <<1545, "ET", 0, "U", 0, 0>>, <<1547, "AL", 0, "U", 0, 0>>, <<1548, "CS", 0, "U", 0, 0>>,
       <<1549, "AL", 0, "U", 0, 0>>, <<1550, "ON", 0, "U", 0, 0>>, <<1552, "NSM", 1, "U", 230, 0>>,
       <<1560, "NSM", 1, "U", 30, 0>>, <<1561, "NSM", 1, "U", 31, 0>>,
       <<1562, "NSM", 1, "U", 32, 0>>, <<1563, "AL", 0, "U", 0, 0>>, <<1565, "X", 0, "U", 0, 0>>,
       <<1566, "AL", 0, "U", 0, 0>>, <<1568, "AL", 0, "D", 0, 0>>, <<1569, "AL", 0, "U", 0, 0>>,
       <<1570, "AL", 0, "R", 0, 0>>, <<1574, "AL", 0, "D", 0, 0>>, <<1575, "AL", 0, "R", 0, 0>>,
       <<1576, "AL", 0, "D", 0, 0>>, <<1577, "AL", 0, "R", 0, 0>>, <<1578, "AL", 0, "D", 0, 0>>,
       <<1583, "AL", 0, "R", 0, 0>>, <<1587, "AL", 0, "D", 0, 0>>, <<1600, "AL", 0, "U", 0, 0>>,
       <<1601, "AL", 0, "D", 0, 0>>, <<1608, "AL", 0, "R", 0, 0>>, <<1609, "AL", 0, "D", 0, 0>>,
       <<1611, "NSM", 1, "U", 27, 0>>, <<1612, "NSM", 1, "U", 28, 0>>,
       <<1613, "NSM", 1, "U", 29, 0>>, <<1614, "NSM", 1, "U", 30, 0>>,
       <<1615, "NSM", 1, "U", 31, 0>>, <<1616, "NSM", 1, "U", 32, 0>>,
       <<1617, "NSM", 1, "U", 33, 0>>, <<1618, "NSM", 1, "U", 34, 0>>,
       <<1619, "NSM", 1, "U", 230, 0>>, <<1621, "NSM", 1, "U", 220, 0>>,
       <<1623, "NSM", 1, "U", 230, 0>>, <<1628, "NSM", 1, "U", 220, 0>>,
       <<1629, "NSM", 1, "U", 230, 0>>, <<1631, "NSM", 1, "U", 220, 0>>,
       <<1632, "AN", 0, "U", 0, 0>>, <<1642, "ET", 0, "U", 0, 0>>, <<1643, "AN", 0, "U", 0, 0>>,
       <<1645, "AL", 0, "U", 0, 0>>, <<1646, "AL", 0, "D", 0, 0>>, <<1648, "NSM", 1, "U", 35, 0>>,
       <<1649, "AL", 0, "R", 0, 0>>, <<1652, "AL", 0, "U", 0, 0>>, <<1653, "AL", 0, "R", 0, 0>>,
       <<1656, "AL", 0, "D", 0, 0>>, <<1672, "AL", 0, "R", 0, 0>>, <<1690, "AL", 0, "D", 0, 0>>,
       <<1728, "AL", 0, "R", 0, 0>>, <<1729, "AL", 0, "D", 0, 0>>, <<1731, "AL", 0, "R", 0, 0>>,
       <<1740, "AL", 0, "D", 0, 0>>, <<1741, "AL", 0, "R", 0, 0>>, <<1742, "AL", 0, "D", 0, 0>>,
       <<1743, "AL", 0, "R", 0, 0>>, <<1744, "AL", 0, "D", 0, 0>>, <<1746, "AL", 0, "R", 0, 0>>,
       <<1748, "AL", 0, "U", 0, 0>>, <<1749, "AL", 0, "R", 0, 0>>, <<1750, "NSM", 1, "U", 230, 0>>,
       <<1757, "AN", 0, "U", 0, 0>>, <<1758, "ON", 0, "U", 0, 0>>, <<1759, "NSM", 1, "U", 230, 0>>,
       <<1763, "NSM", 1, "U", 220, 0>>, <<1764, "NSM", 1, "U", 230, 0>>,
       <<1765, "AL", 0, "U", 0, 0>>, <<1767, "NSM", 1, "U", 230, 0>>, <<1769, "ON", 0, "U", 0, 0>>,
       <<1770, "NSM", 1, "U", 220, 0>>, <<1771, "NSM", 1, "U", 230, 0>>,
       <<1773, "NSM", 1, "U", 220, 0>>, <<1774, "AL", 0, "R", 0, 0>>, <<1776, "EN", 0, "U", 0, 0>>,
       <<1786, "AL", 0, "D", 0, 0>>, <<1789, "AL", 0, "U", 0, 0>>, <<1791, "AL", 0, "D", 0, 0>>,
       <<1792, "AL", 0, "U", 0, 0>>, <<1806, "X", 0, "U", 0, 0>>, <<1807, "AL", 0, "U", 0, 0>>,
       <<1808, "AL", 0, "R", 0, 0>>, <<1809, "NSM", 1, "U", 36, 0>>, <<1810, "AL", 0, "D", 0, 0>>,
       <<1813, "AL", 0, "R", 0, 0>>, <<1818, "AL", 0, "D", 0, 0>>, <<1822, "AL", 0, "R", 0, 0>>,
       <<1823, "AL", 0, "D", 0, 0>>, <<1832, "AL", 0, "R", 0, 0>>, <<1833, "AL", 0, "D", 0, 0>>,
       <<1834, "AL", 0, "R", 0, 0>>, <<1835, "AL", 0, "D", 0, 0>>, <<1836, "AL", 0, "R", 0, 0>>,
       <<1837, "AL", 0, "D", 0, 0>>, <<1839, "AL", 0, "R", 0, 0>>, <<1840, "NSM", 1, "U", 230, 0>>,
       <<1841, "NSM", 1, "U", 220, 0>>, <<1842, "NSM", 1, "U", 230, 0>>,
       <<1844, "NSM", 1, "U", 220, 0>>, <<1845, "NSM", 1, "U", 230, 0>>,
       <<1847, "NSM", 1, "U", 220, 0>>, <<1850, "NSM", 1, "U", 230, 0>>,
       <<1851, "NSM", 1, "U", 220, 0>>, <<1853, "NSM", 1, "U", 230, 0>>,
       <<1854, "NSM", 1, "U", 220, 0>>, <<1855, "NSM", 1, "U", 230, 0>>,
       <<1858, "NSM", 1, "U", 220, 0>>, <<1859, "NSM", 1, "U", 230, 0>>,
       <<1860, "NSM", 1, "U", 220, 0>>, <<1861, "NSM", 1, "U", 230, 0>>,
       <<1862, "NSM", 1, "U", 220, 0>>, <<1863, "NSM", 1, "U", 230, 0>>,
       <<1864, "NSM", 1, "U", 220, 0>>, <<1865, "NSM", 1, "U", 230, 0>>,
       <<1867, "X", 0, "U", 0, 0>>, <<1869, "AL", 0, "R", 0, 0>>, <<1870, "AL", 0, "D", 0, 0>>,
       <<1881, "AL", 0, "R", 0, 0>>, <<1884, "AL", 0, "D", 0, 0>>, <<1895, "AL", 0, "U", 0, 0>>,
       <<1958, "NSM", 1, "U", 0, 0>>, <<1969, "AL", 0, "U", 0, 0>>, <<1970, "X", 0, "U", 0, 0>>,
       <<1984, "R", 0, "U", 0, 0>>, <<2027, "NSM", 1, "U", 230, 0>>,
       <<2034, "NSM", 1, "U", 220, 0>>, <<2035, "NSM", 1, "U", 230, 0>>,
       <<2036, "R", 0, "U", 0, 0>>, <<2038, "ON", 0, "U", 0, 0>>, <<2042, "R", 0, "U", 0, 0>>,
       <<2043, "X", 0, "U", 0, 0>>, <<2045, "NSM", 1, "U", 220, 0>>, <<2046, "R", 0, "U", 0, 0>>,
       <<2070, "NSM", 1, "U", 230, 0>>, <<2074, "R", 0, "U", 0, 0>>,
       <<2075, "NSM", 1, "U", 230, 0>>, <<2084, "R", 0, "U", 0, 0>>,
       <<2085, "NSM", 1, "U", 230, 0>>, <<2088, "R", 0, "U", 0, 0>>,
       <<2089, "NSM", 1, "U", 230, 0>>, <<2094, "X", 0, "U", 0, 0>>, <<2096, "R", 0, "U", 0, 0>>,
       <<2111, "X", 0, "U", 0, 0>>, <<2112, "R", 0, "U", 0, 0>>, <<2128, "R", 0, "D", 0, 0>>,
       <<2132, "R", 0, "R", 0, 0>>, <<2133, "R", 0, "D", 0, 0>>, <<2134, "R", 0, "U", 0, 0>>,
       <<2137, "NSM", 1, "U", 220, 0>>, <<2140, "X", 0, "U", 0, 0>>, <<2142, "R", 0, "U", 0, 0>>,
       <<2143, "X", 0, "U", 0, 0>>, <<2144, "AL", 0, "U", 0, 0>>, <<2155, "X", 0, "U", 0, 0>>,
       <<2200, "X", 0, "U", 230, 0>>, <<2201, "X", 0, "U", 220, 0>>, <<2204, "X", 0, "U", 230, 0>>,
       <<2208, "AL", 0, "D", 0, 0>>, <<2209, "AL", 0, "U", 0, 0>>, <<2210, "AL", 0, "D", 0, 0>>,
       <<2218, "AL", 0, "R", 0, 0>>, <<2221, "AL", 0, "U", 0, 0>>, <<2229, "X", 0, "U", 0, 0>>,
       <<2230, "AL", 0, "U", 0, 0>>, <<2248, "X", 0, "U", 0, 0>>, <<2250, "X", 0, "U", 230, 0>>,
       <<2255, "X", 0, "U", 220, 0>>, <<2259, "NSM", 1, "U", 220, 0>>,
       <<2260, "NSM", 1, "U", 230, 0>>, <<2274, "AN", 0, "U", 0, 0>>,
       <<2275, "NSM", 1, "U", 220, 0>>, <<2276, "NSM", 1, "U", 230, 0>>,
       <<2278, "NSM", 1, "U", 220, 0>>, <<2279, "NSM", 1, "U", 230, 0>>,
       <<2281, "NSM", 1, "U", 220, 0>>, <<2282, "NSM", 1, "U", 230, 0>>,
       <<2285, "NSM", 1, "U", 220, 0>>, <<2288, "NSM", 1, "U", 27, 0>>,
       <<2289, "NSM", 1, "U", 28, 0>>, <<2290, "NSM", 1, "U", 29, 0>>,
       <<2291, "NSM", 1, "U", 230, 0>>, <<2294, "NSM", 1, "U", 220, 0>>,
       <<2295, "NSM", 1, "U", 230, 0>>, <<2297, "NSM", 1, "U", 220, 0>>,
       <<2299, "NSM", 1, "U", 230, 0>>, <<2304, "NSM", 1, "U", 0, 0>>, <<2307, "L", 1, "U", 0, 0>>,
       <<2308, "L", 0, "U", 0, 0>>, <<2362, "NSM", 1, "U", 0, 0>>, <<2363, "L", 1, "U", 0, 0>>,
       <<2364, "NSM", 1, "U", 7, 0>>, <<2365, "L", 0, "U", 0, 0>>, <<2366, "L", 1, "U", 0, 0>>,
       <<2369, "NSM", 1, "U", 0, 0>>, <<2377, "L", 1, "U", 0, 0>>, <<2381, "NSM", 1, "U", 9, 1>>,
       <<2382, "L", 1, "U", 0, 0>>, <<2384, "L", 0, "U", 0, 0>>, <<2385, "NSM", 1, "U", 230, 0>>,
       <<2386, "NSM", 1, "U", 220, 0>>, <<2387, "NSM", 1, "U", 230, 0>>,
       <<2389, "NSM", 1, "U", 0, 0>>, <<2392, "L", 0, "U", 0, 0>>, <<2402, "NSM", 1, "U", 0, 0>>,
       <<2404, "L", 0, "U", 0, 0>>, <<2433, "NSM", 1, "U", 0, 0>>, <<2434, "L", 1, "U", 0, 0>>,
       <<2436, "X", 0, "U", 0, 0>>, <<2437, "L", 0, "U", 0, 0>>, <<2445, "X", 0, "U", 0, 0>>,
       <<2447, "L", 0, "U", 0, 0>>, <<2449, "X", 0, "U", 0, 0>>, <<2451, "L", 0, "U", 0, 0>>,
       <<2473, "X", 0, "U", 0, 0>>, <<2474, "L", 0, "U", 0, 0>>, <<2481, "X", 0, "U", 0, 0>>,
       <<2482, "L", 0, "U", 0, 0>>, <<2483, "X", 0, "U", 0, 0>>, <<2486, "L", 0, "U", 0, 0>>,
       <<2490, "X", 0, "U", 0, 0>>, <<2492, "NSM", 1, "U", 7, 0>>, <<2493, "L", 0, "U", 0, 0>>,
       <<2494, "L", 1, "U", 0, 0>>, <<2497, "NSM", 1, "U", 0, 0>>, <<2501, "X", 0, "U", 0, 0>>,
       <<2503, "L", 1, "U", 0, 0>>, <<2505, "X", 0, "U", 0, 0>>, <<2507, "L", 1, "U", 0, 0>>,
       <<2509, "NSM", 1, "U", 9, 1>>, <<2510, "L", 0, "U", 0, 0>>, <<2511, "X", 0, "U", 0, 0>>,
       <<2519, "L", 1, "U", 0, 0>>, <<2520, "X", 0, "U", 0, 0>>, <<2524, "L", 0, "U", 0, 0>>,
       <<2526, "X", 0, "U", 0, 0>>, <<2527, "L", 0, "U", 0, 0>>, <<2530, "NSM", 1, "U", 0, 0>>,
       <<2532, "X", 0, "U", 0, 0>>, <<2534, "L", 0, "U", 0, 0>>, <<2546, "ET", 0, "U", 0, 0>>,
       <<2548, "L", 0, "U", 0, 0>>, <<2555, "ET", 0, "U", 0, 0>>, <<2556, "L", 0, "U", 0, 0>>,
       <<2558, "NSM", 1, "U", 230, 0>>, <<2559, "X", 0, "U", 0, 0>>, <<2561, "NSM", 1, "U", 0, 0>>,
       <<2563, "L", 1, "U", 0, 0>>, <<2564, "X", 0, "U", 0, 0>>, <<2565, "L", 0, "U", 0, 0>>,
       <<2571, "X", 0, "U", 0, 0>>, <<2575, "L", 0, "U", 0, 0>>, <<2577, "X", 0, "U", 0, 0>>,
       <<2579, "L", 0, "U", 0, 0>>, <<2601, "X", 0, "U", 0, 0>>, <<2602, "L", 0, "U", 0, 0>>,
       <<2609, "X", 0, "U", 0, 0>>, <<2610, "L", 0, "U", 0, 0>>, <<2612, "X", 0, "U", 0, 0>>,
       <<2613, "L", 0, "U", 0, 0>>, <<2615, "X", 0, "U", 0, 0>>, <<2616, "L", 0, "U", 0, 0>>,
       <<2618, "X", 0, "U", 0, 0>>, <<2620, "NSM", 1, "U", 7, 0>>, <<2621, "X", 0, "U", 0, 0>>,
       <<2622, "L", 1, "U", 0, 0>>, <<2625, "NSM", 1, "U", 0, 0>>, <<2627, "X", 0, "U", 0, 0>>,
       <<2631, "NSM", 1, "U", 0, 0>>, <<2633, "X", 0, "U", 0, 0>>, <<2635, "NSM", 1, "U", 0, 0>>,
       <<2637, "NSM", 1, "U", 9, 1>>, <<2638, "X", 0, "U", 0, 0>>, <<2641, "NSM", 1, "U", 0, 0>>,
       <<2642, "X", 0, "U", 0, 0>>, <<2649, "L", 0, "U", 0, 0>>, <<2653, "X", 0, "U", 0, 0>>,
       <<2654, "L", 0, "U", 0, 0>>, <<2655, "X", 0, "U", 0, 0>>, <<2662, "L", 0, "U", 0, 0>>,
       <<2672, "NSM", 1, "U", 0, 0>>, <<2674, "L", 0, "U", 0, 0>>, <<2677, "NSM", 1, "U", 0, 0>>,
       <<2678, "L", 0, "U", 0, 0>>, <<2679, "X", 0, "U", 0, 0>>, <<2689, "NSM", 1, "U", 0, 0>>,
       <<2691, "L", 1, "U", 0, 0>>, <<2692, "X", 0, "U", 0, 0>>, <<2693, "L", 0, "U", 0, 0>>,
       <<2702, "X", 0, "U", 0, 0>>, <<2703, "L", 0, "U", 0, 0>>, <<2706, "X", 0, "U", 0, 0>>,
       <<2707, "L", 0, "U", 0, 0>>, <<2729, "X", 0, "U", 0, 0>>, <<2730, "L", 0, "U", 0, 0>>,
       <<2737, "X", 0, "U", 0, 0>>, <<2738, "L", 0, "U", 0, 0>>, <<2740, "X", 0, "U", 0, 0>>,
       <<2741, "L", 0, "U", 0, 0>>, <<2746, "X", 0, "U", 0, 0>>, <<2748, "NSM", 1, "U", 7, 0>>,
       <<2749, "L", 0, "U", 0, 0>>, <<2750, "L", 1, "U", 0, 0>>, <<2753, "NSM", 1, "U", 0, 0>>,
       <<2758, "X", 0, "U", 0, 0>>, <<2759, "NSM", 1, "U", 0, 0>>, <<2761, "L", 1, "U", 0, 0>>,
       <<2762, "X", 0, "U", 0, 0>>, <<2763, "L", 1, "U", 0, 0>>, <<2765, "NSM", 1, "U", 9, 1>>,
       <<2766, "X", 0, "U", 0, 0>>, <<2768, "L", 0, "U", 0, 0>>, <<2769, "X", 0, "U", 0, 0>>,
       <<2784, "L", 0, "U", 0, 0>>, <<2786, "NSM", 1, "U", 0, 0>>, <<2788, "X", 0, "U", 0, 0>>,
       <<2790, "L", 0, "U", 0, 0>>, <<2801, "ET", 0, "U", 0, 0>>, <<2802, "X", 0, "U", 0, 0>>,
       <<2809, "L", 0, "U", 0, 0>>, <<2810, "NSM", 1, "U", 0, 0>>, <<2816, "X", 0, "U", 0, 0>>,
       <<2817, "NSM", 1, "U", 0, 0>>, <<2818, "L", 1, "U", 0, 0>>, <<2820, "X", 0, "U", 0, 0>>,
       <<2821, "L", 0, "U", 0, 0>>, <<2829, "X", 0, "U", 0, 0>>, <<2831, "L", 0, "U", 0, 0>>,
       <<2833, "X", 0, "U", 0, 0>>, <<2835, "L", 0, "U", 0, 0>>, <<2857, "X", 0, "U", 0, 0>>,
       <<2858, "L", 0, "U", 0, 0>>, <<2865, "X", 0, "U", 0, 0>>, <<2866, "L", 0, "U", 0, 0>>,
       <<2868, "X", 0, "U", 0, 0>>, <<2869, "L", 0, "U", 0, 0>>, <<2874, "X", 0, "U", 0, 0>>,
       <<2876, "NSM", 1, "U", 7, 0>>, <<2877, "L", 0, "U", 0, 0>>, <<2878, "L", 1, "U", 0, 0>>,
       <<2879, "NSM", 1, "U", 0, 0>>, <<2880, "L", 1, "U", 0, 0>>, <<2881, "NSM", 1, "U", 0, 0>>,
       <<2885, "X", 0, "U", 0, 0>>, <<2887, "L", 1, "U", 0, 0>>, <<2889, "X", 0, "U", 0, 0>>,
       <<2891, "L", 1, "U", 0, 0>>, <<2893, "NSM", 1, "U", 9, 1>>, <<2894, "X", 0, "U", 0, 0>>,
       <<2901, "NSM", 1, "U", 0, 0>>, <<2903, "L", 1, "U", 0, 0>>, <<2904, "X", 0, "U", 0, 0>>,
       <<2908, "L", 0, "U", 0, 0>>, <<2910, "X", 0, "U", 0, 0>>, <<2911, "L", 0, "U", 0, 0>>,
       <<2914, "NSM", 1, "U", 0, 0>>, <<2916, "X", 0, "U", 0, 0>>, <<2918, "L", 0, "U", 0, 0>>,
       <<2936, "X", 0, "U", 0, 0>>, <<2946, "NSM", 1, "U", 0, 0>>, <<2947, "L", 0, "U", 0, 0>>,
       <<2948, "X", 0, "U", 0, 0>>, <<2949, "L", 0, "U", 0, 0>>, <<2955, "X", 0, "U", 0, 0>>,
       <<2958, "L", 0, "U", 0, 0>>, <<2961, "X", 0, "U", 0, 0>>, <<2962, "L", 0, "U", 0, 0>>,
       <<2966, "X", 0, "U", 0, 0>>, <<2969, "L", 0, "U", 0, 0>>, <<2971, "X", 0, "U", 0, 0>>,
       <<2972, "L", 0, "U", 0, 0>>, <<2973, "X", 0, "U", 0, 0>>, <<2974, "L", 0, "U", 0, 0>>,
       <<2976, "X", 0, "U", 0, 0>>, <<2979, "L", 0, "U", 0, 0>>, <<2981, "X", 0, "U", 0, 0>>,
       <<2984, "L", 0, "U", 0, 0>>, <<2987, "X", 0, "U", 0, 0>>, <<2990, "L", 0, "U", 0, 0>>,
       <<3002, "X", 0, "U", 0, 0>>, <<3006, "L", 1, "U", 0, 0>>, <<3008, "NSM", 1, "U", 0, 0>>,
       <<3009, "L", 1, "U", 0, 0>>, <<3011, "X", 0, "U", 0, 0>>, <<3014, "L", 1, "U", 0, 0>>,
       <<3017, "X", 0, "U", 0, 0>>, <<3018, "L", 1, "U", 0, 0>>, <<3021, "NSM", 1, "U", 9, 1>>,
       <<3022, "X", 0, "U", 0, 0>>, <<3024, "L", 0, "U", 0, 0>>, <<3025, "X", 0, "U", 0, 0>>,
       <<3031, "L", 1, "U", 0, 0>>, <<3032, "X", 0, "U", 0, 0>>, <<3046, "L", 0, "U", 0, 0>>,
       <<3059, "ON", 0, "U", 0, 0>>, <<3065, "ET", 0, "U", 0, 0>>, <<3066, "ON", 0, "U", 0, 0>>,
       <<3067, "X", 0, "U", 0, 0>>, <<3072, "NSM", 1, "U", 0, 0>>, <<3073, "L", 1, "U", 0, 0>>,
       <<3076, "NSM", 1, "U", 0, 0>>, <<3077, "L", 0, "U", 0, 0>>, <<3085, "X", 0, "U", 0, 0>>,
       <<3086, "L", 0, "U", 0, 0>>, <<3089, "X", 0, "U", 0, 0>>, <<3090, "L", 0, "U", 0, 0>>,
       <<3113, "X", 0, "U", 0, 0>>, <<3114, "L", 0, "U", 0, 0>>, <<3130, "X", 0, "U", 0, 0>>,
       <<3132, "X", 0, "U", 7, 0>>, <<3133, "L", 0, "U", 0, 0>>, <<3134, "NSM", 1, "U", 0, 0>>,
       <<3137, "L", 1, "U", 0, 0>>, <<3141, "X", 0, "U", 0, 0>>, <<3142, "NSM", 1, "U", 0, 0>>,
       <<3145, "X", 0, "U", 0, 0>>, <<3146, "NSM", 1, "U", 0, 0>>, <<3149, "NSM", 1, "U", 9, 1>>,
       <<3150, "X", 0, "U", 0, 0>>, <<3157, "NSM", 1, "U", 84, 0>>, <<3158, "NSM", 1, "U", 91, 0>>,
       <<3159, "X", 0, "U", 0, 0>>, <<3160, "L", 0, "U", 0, 0>>, <<3163, "X", 0, "U", 0, 0>>,
       <<3168, "L", 0, "U", 0, 0>>, <<3170, "NSM", 1, "U", 0, 0>>, <<3172, "X", 0, "U", 0, 0>>,
       <<3174, "L", 0, "U", 0, 0>>, <<3184, "X", 0, "U", 0, 0>>, <<3191, "L", 0, "U", 0, 0>>,
       <<3192, "ON", 0, "U", 0, 0>>, <<3199, "L", 0, "U", 0, 0>>, <<3201, "NSM", 1, "U", 0, 0>>,
       <<3202, "L", 1, "U", 0, 0>>, <<3204, "L", 0, "U", 0, 0>>, <<3213, "X", 0, "U", 0, 0>>,
       <<3214, "L", 0, "U", 0, 0>>, <<3217, "X", 0, "U", 0, 0>>, <<3218, "L", 0, "U", 0, 0>>,
       <<3241, "X", 0, "U", 0, 0>>, <<3242, "L", 0, "U", 0, 0>>, <<3252, "X", 0, "U", 0, 0>>,
       <<3253, "L", 0, "U", 0, 0>>, <<3258, "X", 0, "U", 0, 0>>, <<3260, "NSM", 1, "U", 7, 0>>,
       <<3261, "L", 0, "U", 0, 0>>, <<3262, "L", 1, "U", 0, 0>>, <<3269, "X", 0, "U", 0, 0>>,
       <<3270, "L", 1, "U", 0, 0>>, <<3273, "X", 0, "U", 0, 0>>, <<3274, "L", 1, "U", 0, 0>>,
       <<3276, "NSM", 1, "U", 0, 0>>, <<3277, "NSM", 1, "U", 9, 1>>, <<3278, "X", 0, "U", 0, 0>>,
       <<3285, "L", 1, "U", 0, 0>>, <<3287, "X", 0, "U", 0, 0>>, <<3294, "L", 0, "U", 0, 0>>,
       <<3295, "X", 0, "U", 0, 0>>, <<3296, "L", 0, "U", 0, 0>>, <<3298, "NSM", 1, "U", 0, 0>>,
       <<3300, "X", 0, "U", 0, 0>>, <<3302, "L", 0, "U", 0, 0>>, <<3312, "X", 0, "U", 0, 0>>,
       <<3313, "L", 0, "U", 0, 0>>, <<3315, "X", 0, "U", 0, 0>>, <<3328, "NSM", 1, "U", 0, 0>>,
       <<3330, "L", 1, "U", 0, 0>>, <<3332, "L", 0, "U", 0, 0>>, <<3341, "X", 0, "U", 0, 0>>,
       <<3342, "L", 0, "U", 0, 0>>, <<3345, "X", 0, "U", 0, 0>>, <<3346, "L", 0, "U", 0, 0>>,
       <<3387, "NSM", 1, "U", 9, 1>>, <<3389, "L", 0, "U", 0, 0>>, <<3390, "L", 1, "U", 0, 0>>,
       <<3393, "NSM", 1, "U", 0, 0>>, <<3397, "X", 0, "U", 0, 0>>, <<3398, "L", 1, "U", 0, 0>>,
       <<3401, "X", 0, "U", 0, 0>>, <<3402, "L", 1, "U", 0, 0>>, <<3405, "NSM", 1, "U", 9, 1>>,
       <<3406, "L", 0, "U", 0, 0>>, <<3408, "X", 0, "U", 0, 0>>, <<3412, "L", 0, "U", 0, 0>>,
       <<3415, "L", 1, "U", 0, 0>>, <<3416, "L", 0, "U", 0, 0>>, <<3426, "NSM", 1, "U", 0, 0>>,
       <<3428, "X", 0, "U", 0, 0>>, <<3430, "L", 0, "U", 0, 0>>, <<3456, "X", 0, "U", 0, 0>>,
       <<3457, "NSM", 1, "U", 0, 0>>, <<3458, "L", 1, "U", 0, 0>>, <<3460, "X", 0, "U", 0, 0>>,
       <<3461, "L", 0, "U", 0, 0>>, <<3479, "X", 0, "U", 0, 0>>, <<3482, "L", 0, "U", 0, 0>>,
       <<3506, "X", 0, "U", 0, 0>>, <<3507, "L", 0, "U", 0, 0>>, <<3516, "X", 0, "U", 0, 0>>,
       <<3517, "L", 0, "U", 0, 0>>, <<3518, "X", 0, "U", 0, 0>>, <<3520, "L", 0, "U", 0, 0>>,
       <<3527, "X", 0, "U", 0, 0>>, <<3530, "NSM", 1, "U", 9, 1>>, <<3531, "X", 0, "U", 0, 0>>,
       <<3535, "L", 1, "U", 0, 0>>, <<3538, "NSM", 1, "U", 0, 0>>, <<3541, "X", 0, "U", 0, 0>>,
       <<3542, "NSM", 1, "U", 0, 0>>, <<3543, "X", 0, "U", 0, 0>>, <<3544, "L", 1, "U", 0, 0>>,
       <<3552, "X", 0, "U", 0, 0>>, <<3558, "L", 0, "U", 0, 0>>, <<3568, "X", 0, "U", 0, 0>>,
       <<3570, "L", 1, "U", 0, 0>>, <<3572, "L", 0, "U", 0, 0>>, <<3573, "X", 0, "U", 0, 0>>,
       <<3585, "L", 0, "U", 0, 0>>, <<3633, "NSM", 1, "U", 0, 0>>, <<3634, "L", 0, "U", 0, 0>>,
       <<3636, "NSM", 1, "U", 0, 0>>, <<3640, "NSM", 1, "U", 103, 0>>,
       <<3642, "NSM", 1, "U", 9, 1>>, <<3643, "X", 0, "U", 0, 0>>, <<3647, "ET", 0, "U", 0, 0>>,
       <<3648, "L", 0, "U", 0, 0>>, <<3655, "NSM", 1, "U", 0, 0>>, <<3656, "NSM", 1, "U", 107, 0>>,
       <<3660, "NSM", 1, "U", 0, 0>>, <<3663, "L", 0, "U", 0, 0>>, <<3676, "X", 0, "U", 0, 0>>,
       <<3713, "L", 0, "U", 0, 0>>, <<3715, "X", 0, "U", 0, 0>>, <<3716, "L", 0, "U", 0, 0>>,
       <<3717, "X", 0, "U", 0, 0>>, <<3718, "L", 0, "U", 0, 0>>, <<3723, "X", 0, "U", 0, 0>>,
       <<3724, "L", 0, "U", 0, 0>>, <<3748, "X", 0, "U", 0, 0>>, <<3749, "L", 0, "U", 0, 0>>,
       <<3750, "X", 0, "U", 0, 0>>, <<3751, "L", 0, "U", 0, 0>>, <<3761, "NSM", 1, "U", 0, 0>>,
       <<3762, "L", 0, "U", 0, 0>>, <<3764, "NSM", 1, "U", 0, 0>>, <<3768, "NSM", 1, "U", 118, 0>>,
       <<3770, "NSM", 1, "U", 9, 1>>, <<3771, "NSM", 1, "U", 0, 0>>, <<3773, "L", 0, "U", 0, 0>>,
       <<3774, "X", 0, "U", 0, 0>>, <<3776, "L", 0, "U", 0, 0>>, <<3781, "X", 0, "U", 0, 0>>,
       <<3782, "L", 0, "U", 0, 0>>, <<3783, "X", 0, "U", 0, 0>>, <<3784, "NSM", 1, "U", 122, 0>>,
       <<3788, "NSM", 1, "U", 0, 0>>, <<3790, "X", 0, "U", 0, 0>>, <<3792, "L", 0, "U", 0, 0>>,
       <<3802, "X", 0, "U", 0, 0>>, <<3804, "L", 0, "U", 0, 0>>, <<3808, "X", 0, "U", 0, 0>>,
       <<3840, "L", 0, "U", 0, 0>>, <<3864, "NSM", 1, "U", 220, 0>>, <<3866, "L", 0, "U", 0, 0>>,
       <<3893, "NSM", 1, "U", 220, 0>>, <<3894, "L", 0, "U", 0, 0>>,
       <<3895, "NSM", 1, "U", 220, 0>>, <<3896, "L", 0, "U", 0, 0>>,
       <<3897, "NSM", 1, "U", 216, 0>>, <<3898, "ON", 0, "U", 0, 0>>, <<3902, "L", 1, "U", 0, 0>>,
       <<3904, "L", 0, "U", 0, 0>>, <<3912, "X", 0, "U", 0, 0>>, <<3913, "L", 0, "U", 0, 0>>,
       <<3949, "X", 0, "U", 0, 0>>, <<3953, "NSM", 1, "U", 129, 0>>,
       <<3954, "NSM", 1, "U", 130, 0>>, <<3955, "NSM", 1, "U", 0, 0>>,
       <<3956, "NSM", 1, "U", 132, 0>>, <<3957, "NSM", 1, "U", 0, 0>>,
       <<3962, "NSM", 1, "U", 130, 0>>, <<3966, "NSM", 1, "U", 0, 0>>, <<3967, "L", 1, "U", 0, 0>>,
       <<3968, "NSM", 1, "U", 130, 0>>, <<3969, "NSM", 1, "U", 0, 0>>,
       <<3970, "NSM", 1, "U", 230, 0>>, <<3972, "NSM", 1, "U", 9, 1>>, <<3973, "L", 0, "U", 0, 0>>,
       <<3974, "NSM", 1, "U", 230, 0>>, <<3976, "L", 0, "U", 0, 0>>, <<3981, "NSM", 1, "U", 0, 0>>,
       <<3992, "X", 0, "U", 0, 0>>, <<3993, "NSM", 1, "U", 0, 0>>, <<4029, "X", 0, "U", 0, 0>>,
       <<4030, "L", 0, "U", 0, 0>>, <<4038, "NSM", 1, "U", 220, 0>>, <<4039, "L", 0, "U", 0, 0>>,
       <<4045, "X", 0, "U", 0, 0>>, <<4046, "L", 0, "U", 0, 0>>, <<4059, "X", 0, "U", 0, 0>>,
       <<4096, "L", 0, "U", 0, 0>>, <<4139, "L", 1, "U", 0, 0>>, <<4141, "NSM", 1, "U", 0, 0>>,
       <<4145, "L", 1, "U", 0, 0>>, <<4146, "NSM", 1, "U", 0, 0>>, <<4151, "NSM", 1, "U", 7, 0>>,
       <<4152, "L", 1, "U", 0, 0>>, <<4153, "NSM", 1, "U", 9, 1>>, <<4155, "L", 1, "U", 0, 0>>,
       <<4157, "NSM", 1, "U", 0, 0>>, <<4159, "L", 0, "U", 0, 0>>, <<4182, "L", 1, "U", 0, 0>>,
       <<4184, "NSM", 1, "U", 0, 0>>, <<4186, "L", 0, "U", 0, 0>>, <<4190, "NSM", 1, "U", 0, 0>>,
       <<4193, "L", 0, "U", 0, 0>>, <<4194, "L", 1, "U", 0, 0>>, <<4197, "L", 0, "U", 0, 0>>,
       <<4199, "L", 1, "U", 0, 0>>, <<4206, "L", 0, "U", 0, 0>>, <<4209, "NSM", 1, "U", 0, 0>>,
       <<4213, "L", 0, "U", 0, 0>>, <<4226, "NSM", 1, "U", 0, 0>>, <<4227, "L", 1, "U", 0, 0>>,
       <<4229, "NSM", 1, "U", 0, 0>>, <<4231, "L", 1, "U", 0, 0>>, <<4237, "NSM", 1, "U", 220, 0>>,
       <<4238, "L", 0, "U", 0, 0>>, <<4239, "L", 1, "U", 0, 0>>, <<4240, "L", 0, "U", 0, 0>>,
       <<4250, "L", 1, "U", 0, 0>>, <<4253, "NSM", 1, "U", 0, 0>>, <<4254, "L", 0, "U", 0, 0>>,
       <<4294, "X", 0, "U", 0, 0>>, <<4295, "L", 0, "U", 0, 0>>, <<4296, "X", 0, "U", 0, 0>>,
       <<4301, "L", 0, "U", 0, 0>>, <<4302, "X", 0, "U", 0, 0>>, <<4304, "L", 0, "U", 0, 0>>,
       <<4681, "X", 0, "U", 0, 0>>, <<4682, "L", 0, "U", 0, 0>>, <<4686, "X", 0, "U", 0, 0>>,
       <<4688, "L", 0, "U", 0, 0>>, <<4695, "X", 0, "U", 0, 0>>, <<4696, "L", 0, "U", 0, 0>>,
       <<4697, "X", 0, "U", 0, 0>>, <<4698, "L", 0, "U", 0, 0>>, <<4702, "X", 0, "U", 0, 0>>,
       <<4704, "L", 0, "U", 0, 0>>, <<4745, "X", 0, "U", 0, 0>>, <<4746, "L", 0, "U", 0, 0>>,
       <<4750, "X", 0, "U", 0, 0>>, <<4752, "L", 0, "U", 0, 0>>, <<4785, "X", 0, "U", 0, 0>>,
       <<4786, "L", 0, "U", 0, 0>>, <<4790, "X", 0, "U", 0, 0>>, <<4792, "L", 0, "U", 0, 0>>,
       <<4799, "X", 0, "U", 0, 0>>, <<4800, "L", 0, "U", 0, 0>>, <<4801, "X", 0, "U", 0, 0>>,
       <<4802, "L", 0, "U", 0, 0>>, <<4806, "X", 0, "U", 0, 0>>, <<4808, "L", 0, "U", 0, 0>>,
       <<4823, "X", 0, "U", 0, 0>>, <<4824, "L", 0, "U", 0, 0>>, <<4881, "X", 0, "U", 0, 0>>,
       <<4882, "L", 0, "U", 0, 0>>, <<4886, "X", 0, "U", 0, 0>>, <<4888, "L", 0, "U", 0, 0>>,
       <<4955, "X", 0, "U", 0, 0>>, <<4957, "NSM", 1, "U", 230, 0>>, <<4960, "L", 0, "U", 0, 0>>,
       <<4989, "X", 0, "U", 0, 0>>, <<4992, "L", 0, "U", 0, 0>>, <<5008, "ON", 0, "U", 0, 0>>,
       <<5018, "X", 0, "U", 0, 0>>, <<5024, "L", 0, "U", 0, 0>>, <<5110, "X", 0, "U", 0, 0>>,
       <<5112, "L", 0, "U", 0, 0>>, <<5118, "X", 0, "U", 0, 0>>, <<5120, "ON", 0, "U", 0, 0>>,
       <<5121, "L", 0, "U", 0, 0>>, <<5760, "X", 0, "U", 0, 0>>, <<5761, "L", 0, "U", 0, 0>>,
       <<5787, "ON", 0, "U", 0, 0>>, <<5789, "X", 0, "U", 0, 0>>, <<5792, "L", 0, "U", 0, 0>>,
       <<5881, "X", 0, "U", 0, 0>>, <<5888, "L", 0, "U", 0, 0>>, <<5901, "X", 0, "U", 0, 0>>,
       <<5902, "L", 0, "U", 0, 0>>, <<5906, "NSM", 1, "U", 0, 0>>, <<5908, "NSM", 1, "U", 9, 1>>,
       <<5909, "X", 0, "U", 9, 0>>, <<5910, "X", 0, "U", 0, 0>>, <<5920, "L", 0, "U", 0, 0>>,
       <<5938, "NSM", 1, "U", 0, 0>>, <<5940, "NSM", 1, "U", 9, 1>>, <<5941, "L", 0, "U", 0, 0>>,
       <<5943, "X", 0, "U", 0, 0>>, <<5952, "L", 0, "U", 0, 0>>, <<5970, "NSM", 1, "U", 0, 0>>,
       <<5972, "X", 0, "U", 0, 0>>, <<5984, "L", 0, "U", 0, 0>>, <<5997, "X", 0, "U", 0, 0>>,
       <<5998, "L", 0, "U", 0, 0>>, <<6001, "X", 0, "U", 0, 0>>, <<6002, "NSM", 1, "U", 0, 0>>,
       <<6004, "X", 0, "U", 0, 0>>, <<6016, "L", 0, "U", 0, 0>>, <<6068, "NSM", 1, "U", 0, 0>>,
       <<6070, "L", 1, "U", 0, 0>>, <<6071, "NSM", 1, "U", 0, 0>>, <<6078, "L", 1, "U", 0, 0>>,
       <<6086, "NSM", 1, "U", 0, 0>>, <<6087, "L", 1, "U", 0, 0>>, <<6089, "NSM", 1, "U", 0, 0>>,
       <<6098, "NSM", 1, "U", 9, 1>>, <<6099, "NSM", 1, "U", 0, 0>>, <<6100, "L", 0, "U", 0, 0>>,
       <<6107, "ET", 0, "U", 0, 0>>, <<6108, "L", 0, "U", 0, 0>>, <<6109, "NSM", 1, "U", 230, 0>>,
       <<6110, "X", 0, "U", 0, 0>>, <<6112, "L", 0, "U", 0, 0>>, <<6122, "X", 0, "U", 0, 0>>,
       <<6128, "ON", 0, "U", 0, 0>>, <<6138, "X", 0, "U", 0, 0>>, <<6144, "ON", 0, "U", 0, 0>>,
       <<6151, "ON", 0, "D", 0, 0>>, <<6152, "ON", 0, "U", 0, 0>>, <<6155, "NSM", 1, "U", 0, 0>>,
       <<6158, "BN", 0, "U", 0, 0>>, <<6159, "X", 0, "U", 0, 0>>, <<6160, "L", 0, "U", 0, 0>>,
       <<6170, "X", 0, "U", 0, 0>>, <<6176, "L", 0, "D", 0, 0>>, <<6264, "L", 0, "U", 0, 0>>,
       <<6265, "X", 0, "U", 0, 0>>, <<6272, "L", 0, "U", 0, 0>>, <<6277, "NSM", 1, "U", 0, 0>>,
       <<6279, "L", 0, "D", 0, 0>>, <<6313, "NSM", 1, "U", 228, 0>>, <<6314, "L", 0, "D", 0, 0>>,
       <<6315, "X", 0, "U", 0, 0>>, <<6320, "L", 0, "U", 0, 0>>, <<6390, "X", 0, "U", 0, 0>>,
       <<6400, "L", 0, "U", 0, 0>>, <<6431, "X", 0, "U", 0, 0>>, <<6432, "NSM", 1, "U", 0, 0>>,
       <<6435, "L", 1, "U", 0, 0>>, <<6439, "NSM", 1, "U", 0, 0>>, <<6441, "L", 1, "U", 0, 0>>,
       <<6444, "X", 0, "U", 0, 0>>, <<6448, "L", 1, "U", 0, 0>>, <<6450, "NSM", 1, "U", 0, 0>>,
       <<6451, "L", 1, "U", 0, 0>>, <<6457, "NSM", 1, "U", 222, 0>>,
       <<6458, "NSM", 1, "U", 230, 0>>, <<6459, "NSM", 1, "U", 220, 0>>,
       <<6460, "X", 0, "U", 0, 0>>, <<6464, "ON", 0, "U", 0, 0>>, <<6465, "X", 0, "U", 0, 0>>,
       <<6468, "ON", 0, "U", 0, 0>>, <<6470, "L", 0, "U", 0, 0>>, <<6510, "X", 0, "U", 0, 0>>,
       <<6512, "L", 0, "U", 0, 0>>, <<6517, "X", 0, "U", 0, 0>>, <<6528, "L", 0, "U", 0, 0>>,
       <<6572, "X", 0, "U", 0, 0>>, <<6576, "L", 0, "U", 0, 0>>, <<6602, "X", 0, "U", 0, 0>>,
       <<6608, "L", 0, "U", 0, 0>>, <<6619, "X", 0, "U", 0, 0>>, <<6622, "ON", 0, "U", 0, 0>>,
       <<6656, "L", 0, "U", 0, 0>>, <<6679, "NSM", 1, "U", 230, 0>>,
       <<6680, "NSM", 1, "U", 220, 0>>, <<6681, "L", 1, "U", 0, 0>>, <<6683, "NSM", 1, "U", 0, 0>>,
       <<6684, "X", 0, "U", 0, 0>>, <<6686, "L", 0, "U", 0, 0>>, <<6741, "L", 1, "U", 0, 0>>,
       <<6742, "NSM", 1, "U", 0, 0>>, <<6743, "L", 1, "U", 0, 0>>, <<6744, "NSM", 1, "U", 0, 0>>,
       <<6751, "X", 0, "U", 0, 0>>, <<6752, "NSM", 1, "U", 9, 1>>, <<6753, "L", 1, "U", 0, 0>>,
       <<6754, "NSM", 1, "U", 0, 0>>, <<6755, "L", 1, "U", 0, 0>>, <<6757, "NSM", 1, "U", 0, 0>>,
       <<6765, "L", 1, "U", 0, 0>>, <<6771, "NSM", 1, "U", 0, 0>>, <<6773, "NSM", 1, "U", 230, 0>>,
       <<6781, "X", 0, "U", 0, 0>>, <<6783, "NSM", 1, "U", 220, 0>>, <<6784, "L", 0, "U", 0, 0>>,
       <<6794, "X", 0, "U", 0, 0>>, <<6800, "L", 0, "U", 0, 0>>, <<6810, "X", 0, "U", 0, 0>>,
       <<6816, "L", 0, "U", 0, 0>>, <<6830, "X", 0, "U", 0, 0>>, <<6832, "NSM", 1, "U", 230, 0>>,
       <<6837, "NSM", 1, "U", 220, 0>>, <<6843, "NSM", 1, "U", 230, 0>>,
       <<6845, "NSM", 1, "U", 220, 0>>, <<6846, "NSM", 1, "U", 0, 0>>,
       <<6847, "NSM", 1, "U", 220, 0>>, <<6849, "X", 0, "U", 230, 0>>,
       <<6851, "X", 0, "U", 220, 0>>, <<6853, "X", 0, "U", 230, 0>>, <<6858, "X", 0, "U", 220, 0>>,
       <<6859, "X", 0, "U", 230, 0>>, <<6863, "X", 0, "U", 0, 0>>, <<6912, "NSM", 1, "U", 0, 0>>,
       <<6916, "L", 1, "U", 0, 0>>, <<6917, "L", 0, "U", 0, 0>>, <<6964, "NSM", 1, "U", 7, 0>>,
       <<6965, "L", 1, "U", 0, 0>>, <<6966, "NSM", 1, "U", 0, 0>>, <<6971, "L", 1, "U", 0, 0>>,
       <<6972, "NSM", 1, "U", 0, 0>>, <<6973, "L", 1, "U", 0, 0>>, <<6978, "NSM", 1, "U", 0, 0>>,
       <<6979, "L", 1, "U", 0, 0>>, <<6980, "L", 1, "U", 9, 1>>, <<6981, "L", 0, "U", 0, 0>>,
       <<6988, "X", 0, "U", 0, 0>>, <<6992, "L", 0, "U", 0, 0>>, <<7019, "NSM", 1, "U", 230, 0>>,
       <<7020, "NSM", 1, "U", 220, 0>>, <<7021, "NSM", 1, "U", 230, 0>>,
       <<7028, "L", 0, "U", 0, 0>>, <<7037, "X", 0, "U", 0, 0>>, <<7040, "NSM", 1, "U", 0, 0>>,
       <<7042, "L", 1, "U", 0, 0>>, <<7043, "L", 0, "U", 0, 0>>, <<7073, "L", 1, "U", 0, 0>>,
       <<7074, "NSM", 1, "U", 0, 0>>, <<7078, "L", 1, "U", 0, 0>>, <<7080, "NSM", 1, "U", 0, 0>>,
       <<7082, "L", 1, "U", 9, 1>>, <<7083, "NSM", 1, "U", 9, 1>>, <<7084, "NSM", 1, "U", 0, 0>>,
       <<7086, "L", 0, "U", 0, 0>>, <<7142, "NSM", 1, "U", 7, 0>>, <<7143, "L", 1, "U", 0, 0>>,
       <<7144, "NSM", 1, "U", 0, 0>>, <<7146, "L", 1, "U", 0, 0>>, <<7149, "NSM", 1, "U", 0, 0>>,
       <<7150, "L", 1, "U", 0, 0>>, <<7151, "NSM", 1, "U", 0, 0>>, <<7154, "L", 1, "U", 9, 1>>,
       <<7156, "X", 0, "U", 0, 0>>, <<7164, "L", 0, "U", 0, 0>>, <<7204, "L", 1, "U", 0, 0>>,
       <<7212, "NSM", 1, "U", 0, 0>>, <<7220, "L", 1, "U", 0, 0>>, <<7222, "NSM", 1, "U", 0, 0>>,
       <<7223, "NSM", 1, "U", 7, 0>>, <<7224, "X", 0, "U", 0, 0>>, <<7227, "L", 0, "U", 0, 0>>,
       <<7242, "X", 0, "U", 0, 0>>, <<7245, "L", 0, "U", 0, 0>>, <<7305, "X", 0, "U", 0, 0>>,
       <<7312, "L", 0, "U", 0, 0>>, <<7355, "X", 0, "U", 0, 0>>, <<7357, "L", 0, "U", 0, 0>>,
       <<7368, "X", 0, "U", 0, 0>>, <<7376, "NSM", 1, "U", 230, 0>>, <<7379, "L", 0, "U", 0, 0>>,
       <<7380, "NSM", 1, "U", 1, 0>>, <<7381, "NSM", 1, "U", 220, 0>>,
       <<7386, "NSM", 1, "U", 230, 0>>, <<7388, "NSM", 1, "U", 220, 0>>,
       <<7392, "NSM", 1, "U", 230, 0>>, <<7393, "L", 1, "U", 0, 0>>, <<7394, "NSM", 1, "U", 1, 0>>,
       <<7401, "L", 0, "U", 0, 0>>, <<7405, "NSM", 1, "U", 220, 0>>, <<7406, "L", 0, "U", 0, 0>>,
       <<7412, "NSM", 1, "U", 230, 0>>, <<7413, "L", 0, "U", 0, 0>>, <<7415, "L", 1, "U", 0, 0>>,
       <<7416, "NSM", 1, "U", 230, 0>>, <<7418, "L", 0, "U", 0, 0>>, <<7419, "X", 0, "U", 0, 0>>,
       <<7424, "L", 0, "U", 0, 0>>, <<7616, "NSM", 1, "U", 230, 0>>,
       <<7618, "NSM", 1, "U", 220, 0>>, <<7619, "NSM", 1, "U", 230, 0>>,
       <<7626, "NSM", 1, "U", 220, 0>>, <<7627, "NSM", 1, "U", 230, 0>>,
       <<7629, "NSM", 1, "U", 234, 0>>, <<7630, "NSM", 1, "U", 214, 0>>,
       <<7631, "NSM", 1, "U", 220, 0>>, <<7632, "NSM", 1, "U", 202, 0>>,
       <<7633, "NSM", 1, "U", 230, 0>>, <<7670, "NSM", 1, "U", 232, 0>>,
       <<7671, "NSM", 1, "U", 228, 0>>, <<7673, "NSM", 1, "U", 220, 0>>,
       <<7674, "X", 0, "U", 218, 0>>, <<7675, "NSM", 1, "U", 230, 0>>,
       <<7676, "NSM", 1, "U", 233, 0>>, <<7677, "NSM", 1, "U", 220, 0>>,
       <<7678, "NSM", 1, "U", 230, 0>>, <<7679, "NSM", 1, "U", 220, 0>>,
       <<7680, "L", 0, "U", 0, 0>>, <<7958, "X", 0, "U", 0, 0>>, <<7960, "L", 0, "U", 0, 0>>,
       <<7966, "X", 0, "U", 0, 0>>, <<7968, "L", 0, "U", 0, 0>>, <<8006, "X", 0, "U", 0, 0>>,
       <<8008, "L", 0, "U", 0, 0>>, <<8014, "X", 0, "U", 0, 0>>, <<8016, "L", 0, "U", 0, 0>>,
       <<8024, "X", 0, "U", 0, 0>>, <<8025, "L", 0, "U", 0, 0>>, <<8026, "X", 0, "U", 0, 0>>,
       <<8027, "L", 0, "U", 0, 0>>, <<8028, "X", 0, "U", 0, 0>>, <<8029, "L", 0, "U", 0, 0>>,
       <<8030, "X", 0, "U", 0, 0>>, <<8031, "L", 0, "U", 0, 0>>, <<8062, "X", 0, "U", 0, 0>>,
       <<8064, "L", 0, "U", 0, 0>>, <<8117, "X", 0, "U", 0, 0>>, <<8118, "L", 0, "U", 0, 0>>,
       <<8125, "ON", 0, "U", 0, 0>>, <<8126, "L", 0, "U", 0, 0>>, <<8127, "ON", 0, "U", 0, 0>>,
       <<8130, "L", 0, "U", 0, 0>>, <<8133, "X", 0, "U", 0, 0>>, <<8134, "L", 0, "U", 0, 0>>,
       <<8141, "ON", 0, "U", 0, 0>>, <<8144, "L", 0, "U", 0, 0>>, <<8148, "X", 0, "U", 0, 0>>,
       <<8150, "L", 0, "U", 0, 0>>, <<8156, "X", 0, "U", 0, 0>>, <<8157, "ON", 0, "U", 0, 0>>,
       <<8160, "L", 0, "U", 0, 0>>, <<8173, "ON", 0, "U", 0, 0>>, <<8176, "X", 0, "U", 0, 0>>,
       <<8178, "L", 0, "U", 0, 0>>, <<8181, "X", 0, "U", 0, 0>>, <<8182, "L", 0, "U", 0, 0>>,
       <<8189, "ON", 0, "U", 0, 0>>, <<8191, "X", 0, "U", 0, 0>>, <<8203, "BN", 0, "U", 0, 0>>,
       <<8206, "L", 0, "U", 0, 0>>, <<8207, "R", 0, "U", 0, 0>>, <<8208, "ON", 0, "U", 0, 0>>,
       <<8232, "X", 0, "U", 0, 0>>, <<8239, "CS", 0, "U", 0, 0>>, <<8240, "ET", 0, "U", 0, 0>>,
       <<8245, "ON", 0, "U", 0, 0>>, <<8260, "CS", 0, "U", 0, 0>>, <<8261, "ON", 0, "U", 0, 0>>,
       <<8287, "X", 0, "U", 0, 0>>, <<8288, "BN", 0, "U", 0, 0>>, <<8293, "X", 0, "U", 0, 0>>,
       <<8298, "BN", 0, "U", 0, 0>>, <<8304, "EN", 0, "U", 0, 0>>, <<8305, "L", 0, "U", 0, 0>>,
       <<8306, "X", 0, "U", 0, 0>>, <<8308, "EN", 0, "U", 0, 0>>, <<8314, "ES", 0, "U", 0, 0>>,
       <<8316, "ON", 0, "U", 0, 0>>, <<8319, "L", 0, "U", 0, 0>>, <<8320, "EN", 0, "U", 0, 0>>,
       <<8330, "ES", 0, "U", 0, 0>>, <<8332, "ON", 0, "U", 0, 0>>, <<8335, "X", 0, "U", 0, 0>>,
       <<8336, "L", 0, "U", 0, 0>>, <<8349, "X", 0, "U", 0, 0>>, <<8352, "ET", 0, "U", 0, 0>>,
       <<8384, "X", 0, "U", 0, 0>>, <<8400, "NSM", 1, "U", 230, 0>>, <<8402, "NSM", 1, "U", 1, 0>>,
       <<8404, "NSM", 1, "U", 230, 0>>, <<8408, "NSM", 1, "U", 1, 0>>,
       <<8411, "NSM", 1, "U", 230, 0>>, <<8413, "NSM", 1, "U", 0, 0>>,
       <<8417, "NSM", 1, "U", 230, 0>>, <<8418, "NSM", 1, "U", 0, 0>>,
       <<8421, "NSM", 1, "U", 1, 0>>, <<8423, "NSM", 1, "U", 230, 0>>,
       <<8424, "NSM", 1, "U", 220, 0>>, <<8425, "NSM", 1, "U", 230, 0>>,
       <<8426, "NSM", 1, "U", 1, 0>>, <<8428, "NSM", 1, "U", 220, 0>>,
       <<8432, "NSM", 1, "U", 230, 0>>, <<8433, "X", 0, "U", 0, 0>>, <<8448, "ON", 0, "U", 0, 0>>,
       <<8450, "L", 0, "U", 0, 0>>, <<8451, "ON", 0, "U", 0, 0>>, <<8455, "L", 0, "U", 0, 0>>,
       <<8456, "ON", 0, "U", 0, 0>>, <<8458, "L", 0, "U", 0, 0>>, <<8468, "ON", 0, "U", 0, 0>>,
       <<8469, "L", 0, "U", 0, 0>>, <<8470, "ON", 0, "U", 0, 0>>, <<8473, "L", 0, "U", 0, 0>>,
       <<8478, "ON", 0, "U", 0, 0>>, <<8484, "L", 0, "U", 0, 0>>, <<8485, "ON", 0, "U", 0, 0>>,
       <<8486, "L", 0, "U", 0, 0>>, <<8487, "ON", 0, "U", 0, 0>>, <<8488, "L", 0, "U", 0, 0>>,
       <<8489, "ON", 0, "U", 0, 0>>, <<8490, "L", 0, "U", 0, 0>>, <<8494, "ET", 0, "U", 0, 0>>,
       <<8495, "L", 0, "U", 0, 0>>, <<8506, "ON", 0, "U", 0, 0>>, <<8508, "L", 0, "U", 0, 0>>,
       <<8512, "ON", 0, "U", 0, 0>>, <<8517, "L", 0, "U", 0, 0>>, <<8522, "ON", 0, "U", 0, 0>>,
       <<8526, "L", 0, "U", 0, 0>>, <<8528, "ON", 0, "U", 0, 0>>, <<8544, "L", 0, "U", 0, 0>>,
       <<8585, "ON", 0, "U", 0, 0>>, <<8588, "X", 0, "U", 0, 0>>, <<8592, "ON", 0, "U", 0, 0>>,
       <<8722, "ES", 0, "U", 0, 0>>, <<8723, "ET", 0, "U", 0, 0>>, <<8724, "ON", 0, "U", 0, 0>>,
       <<9014, "L", 0, "U", 0, 0>>, <<9083, "ON", 0, "U", 0, 0>>, <<9109, "L", 0, "U", 0, 0>>,
       <<9110, "ON", 0, "U", 0, 0>>, <<9255, "X", 0, "U", 0, 0>>, <<9280, "ON", 0, "U", 0, 0>>,
       <<9291, "X", 0, "U", 0, 0>>, <<9312, "ON", 0, "U", 0, 0>>, <<9352, "EN", 0, "U", 0, 0>>,
       <<9372, "L", 0, "U", 0, 0>>, <<9450, "ON", 0, "U", 0, 0>>, <<9900, "L", 0, "U", 0, 0>>,
       <<9901, "ON", 0, "U", 0, 0>>, <<10240, "L", 0, "U", 0, 0>>, <<10496, "ON", 0, "U", 0, 0>>,
       <<11124, "X", 0, "U", 0, 0>>, <<11126, "ON", 0, "U", 0, 0>>, <<11158, "X", 0, "U", 0, 0>>,
       <<11159, "ON", 0, "U", 0, 0>>, <<11264, "L", 0, "U", 0, 0>>, <<11311, "X", 0, "U", 0, 0>>,
       <<11312, "L", 0, "U", 0, 0>>, <<11359, "X", 0, "U", 0, 0>>, <<11360, "L", 0, "U", 0, 0>>,
       <<11493, "ON", 0, "U", 0, 0>>, <<11499, "L", 0, "U", 0, 0>>,
       <<11503, "NSM", 1, "U", 230, 0>>, <<11506, "L", 0, "U", 0, 0>>,
       <<11508, "X", 0, "U", 0, 0>>, <<11513, "ON", 0, "U", 0, 0>>, <<11520, "L", 0, "U", 0, 0>>,
       <<11558, "X", 0, "U", 0, 0>>, <<11559, "L", 0, "U", 0, 0>>, <<11560, "X", 0, "U", 0, 0>>,
       <<11565, "L", 0, "U", 0, 0>>, <<11566, "X", 0, "U", 0, 0>>, <<11568, "L", 0, "U", 0, 0>>,
       <<11624, "X", 0, "U", 0, 0>>, <<11631, "L", 0, "U", 0, 0>>, <<11633, "X", 0, "U", 0, 0>>,
       <<11647, "NSM", 1, "U", 9, 1>>, <<11648, "L", 0, "U", 0, 0>>, <<11671, "X", 0, "U", 0, 0>>,
       <<11680, "L", 0, "U", 0, 0>>, <<11687, "X", 0, "U", 0, 0>>, <<11688, "L", 0, "U", 0, 0>>,
       <<11695, "X", 0, "U", 0, 0>>, <<11696, "L", 0, "U", 0, 0>>, <<11703, "X", 0, "U", 0, 0>>,
       <<11704, "L", 0, "U", 0, 0>>, <<11711, "X", 0, "U", 0, 0>>, <<11712, "L", 0, "U", 0, 0>>,
       <<11719, "X", 0, "U", 0, 0>>, <<11720, "L", 0, "U", 0, 0>>, <<11727, "X", 0, "U", 0, 0>>,
       <<11728, "L", 0, "U", 0, 0>>, <<11735, "X", 0, "U", 0, 0>>, <<11736, "L", 0, "U", 0, 0>>,
       <<11743, "X", 0, "U", 0, 0>>, <<11744, "NSM", 1, "U", 230, 0>>,
       <<11776, "ON", 0, "U", 0, 0>>, <<11859, "X", 0, "U", 0, 0>>, <<11904, "ON", 0, "U", 0, 0>>,
       <<11930, "X", 0, "U", 0, 0>>, <<11931, "ON", 0, "U", 0, 0>>, <<12020, "X", 0, "U", 0, 0>>,
       <<12032, "ON", 0, "U", 0, 0>>, <<12246, "X", 0, "U", 0, 0>>, <<12272, "ON", 0, "U", 0, 0>>,
       <<12284, "X", 0, "U", 0, 0>>, <<12289, "ON", 0, "U", 0, 0>>, <<12293, "L", 0, "U", 0, 0>>,
       <<12296, "ON", 0, "U", 0, 0>>, <<12321, "L", 0, "U", 0, 0>>,
       <<12330, "NSM", 1, "U", 218, 0>>, <<12331, "NSM", 1, "U", 228, 0>>,
       <<12332, "NSM", 1, "U", 232, 0>>, <<12333, "NSM", 1, "U", 222, 0>>,
       <<12334, "L", 1, "U", 224, 0>>, <<12336, "ON", 0, "U", 0, 0>>, <<12337, "L", 0, "U", 0, 0>>,
       <<12342, "ON", 0, "U", 0, 0>>, <<12344, "L", 0, "U", 0, 0>>, <<12349, "ON", 0, "U", 0, 0>>,
       <<12352, "X", 0, "U", 0, 0>>, <<12353, "L", 0, "U", 0, 0>>, <<12439, "X", 0, "U", 0, 0>>,
       <<12441, "NSM", 1, "U", 8, 0>>, <<12443, "ON", 0, "U", 0, 0>>, <<12445, "L", 0, "U", 0, 0>>,
       <<12448, "ON", 0, "U", 0, 0>>, <<12449, "L", 0, "U", 0, 0>>, <<12539, "ON", 0, "U", 0, 0>>,
       <<12540, "L", 0, "U", 0, 0>>, <<12544, "X", 0, "U", 0, 0>>, <<12549, "L", 0, "U", 0, 0>>,
       <<12592, "X", 0, "U", 0, 0>>, <<12593, "L", 0, "U", 0, 0>>, <<12687, "X", 0, "U", 0, 0>>,
       <<12688, "L", 0, "U", 0, 0>>, <<12736, "ON", 0, "U", 0, 0>>, <<12772, "X", 0, "U", 0, 0>>,
       <<12784, "L", 0, "U", 0, 0>>, <<12829, "ON", 0, "U", 0, 0>>, <<12831, "X", 0, "U", 0, 0>>,
       <<12832, "L", 0, "U", 0, 0>>, <<12880, "ON", 0, "U", 0, 0>>, <<12896, "L", 0, "U", 0, 0>>,
       <<12924, "ON", 0, "U", 0, 0>>, <<12927, "L", 0, "U", 0, 0>>, <<12977, "ON", 0, "U", 0, 0>>,
       <<12992, "L", 0, "U", 0, 0>>, <<13004, "ON", 0, "U", 0, 0>>, <<13008, "L", 0, "U", 0, 0>>,
       <<13175, "ON", 0, "U", 0, 0>>, <<13179, "L", 0, "U", 0, 0>>, <<13278, "ON", 0, "U", 0, 0>>,
       <<13280, "L", 0, "U", 0, 0>>, <<13311, "ON", 0, "U", 0, 0>>, <<13312, "L", 0, "U", 0, 0>>,
       <<19904, "ON", 0, "U", 0, 0>>, <<19968, "L", 0, "U", 0, 0>>, <<40957, "X", 0, "U", 0, 0>>,
       <<40960, "L", 0, "U", 0, 0>>, <<42125, "X", 0, "U", 0, 0>>, <<42128, "ON", 0, "U", 0, 0>>,
       <<42183, "X", 0, "U", 0, 0>>, <<42192, "L", 0, "U", 0, 0>>, <<42509, "ON", 0, "U", 0, 0>>,
       <<42512, "L", 0, "U", 0, 0>>, <<42540, "X", 0, "U", 0, 0>>, <<42560, "L", 0, "U", 0, 0>>,
       <<42607, "NSM", 1, "U", 230, 0>>, <<42608, "NSM", 1, "U", 0, 0>>,
       <<42611, "ON", 0, "U", 0, 0>>, <<42612, "NSM", 1, "U", 230, 0>>,
       <<42622, "ON", 0, "U", 0, 0>>, <<42624, "L", 0, "U", 0, 0>>,
       <<42654, "NSM", 1, "U", 230, 0>>, <<42656, "L", 0, "U", 0, 0>>,
       <<42736, "NSM", 1, "U", 230, 0>>, <<42738, "L", 0, "U", 0, 0>>,
       <<42744, "X", 0, "U", 0, 0>>, <<42752, "ON", 0, "U", 0, 0>>, <<42786, "L", 0, "U", 0, 0>>,
       <<42888, "ON", 0, "U", 0, 0>>, <<42889, "L", 0, "U", 0, 0>>, <<42944, "X", 0, "U", 0, 0>>,
       <<42946, "L", 0, "U", 0, 0>>, <<42955, "X", 0, "U", 0, 0>>, <<42997, "L", 0, "U", 0, 0>>,
       <<43010, "NSM", 1, "U", 0, 0>>, <<43011, "L", 0, "U", 0, 0>>,
       <<43014, "NSM", 1, "U", 9, 1>>, <<43015, "L", 0, "U", 0, 0>>,
       <<43019, "NSM", 1, "U", 0, 0>>, <<43020, "L", 0, "U", 0, 0>>, <<43043, "L", 1, "U", 0, 0>>,
       <<43045, "NSM", 1, "U", 0, 0>>, <<43047, "L", 1, "U", 0, 0>>, <<43048, "ON", 0, "U", 0, 0>>,
       <<43052, "NSM", 1, "U", 9, 1>>, <<43053, "X", 0, "U", 0, 0>>, <<43056, "L", 0, "U", 0, 0>>,
       <<43064, "ET", 0, "U", 0, 0>>, <<43066, "X", 0, "U", 0, 0>>, <<43072, "L", 0, "D", 0, 0>>,
       <<43122, "L", 0, "L", 0, 0>>, <<43123, "L", 0, "U", 0, 0>>, <<43124, "ON", 0, "U", 0, 0>>,
       <<43128, "X", 0, "U", 0, 0>>, <<43136, "L", 1, "U", 0, 0>>, <<43138, "L", 0, "U", 0, 0>>,
       <<43188, "L", 1, "U", 0, 0>>, <<43204, "NSM", 1, "U", 9, 1>>,
       <<43205, "NSM", 1, "U", 0, 0>>, <<43206, "X", 0, "U", 0, 0>>, <<43214, "L", 0, "U", 0, 0>>,
       <<43226, "X", 0, "U", 0, 0>>, <<43232, "NSM", 1, "U", 230, 0>>,
       <<43250, "L", 0, "U", 0, 0>>, <<43263, "NSM", 1, "U", 0, 0>>, <<43264, "L", 0, "U", 0, 0>>,
       <<43302, "NSM", 1, "U", 0, 0>>, <<43307, "NSM", 1, "U", 220, 0>>,
       <<43310, "L", 0, "U", 0, 0>>, <<43335, "NSM", 1, "U", 0, 0>>, <<43346, "L", 1, "U", 0, 0>>,
       <<43347, "L", 1, "U", 9, 1>>, <<43348, "X", 0, "U", 0, 0>>, <<43359, "L", 0, "U", 0, 0>>,
       <<43389, "X", 0, "U", 0, 0>>, <<43392, "NSM", 1, "U", 0, 0>>, <<43395, "L", 1, "U", 0, 0>>,
       <<43396, "L", 0, "U", 0, 0>>, <<43443, "NSM", 1, "U", 7, 0>>, <<43444, "L", 1, "U", 0, 0>>,
       <<43446, "NSM", 1, "U", 0, 0>>, <<43450, "L", 1, "U", 0, 0>>,
       <<43452, "NSM", 1, "U", 0, 0>>, <<43454, "L", 1, "U", 0, 0>>, <<43456, "L", 1, "U", 9, 1>>,
       <<43457, "L", 0, "U", 0, 0>>, <<43470, "X", 0, "U", 0, 0>>, <<43471, "L", 0, "U", 0, 0>>,
       <<43482, "X", 0, "U", 0, 0>>, <<43486, "L", 0, "U", 0, 0>>, <<43493, "NSM", 1, "U", 0, 0>>,
       <<43494, "L", 0, "U", 0, 0>>, <<43519, "X", 0, "U", 0, 0>>, <<43520, "L", 0, "U", 0, 0>>,
       <<43561, "NSM", 1, "U", 0, 0>>, <<43567, "L", 1, "U", 0, 0>>,
       <<43569, "NSM", 1, "U", 0, 0>>, <<43571, "L", 1, "U", 0, 0>>,
       <<43573, "NSM", 1, "U", 0, 0>>, <<43575, "X", 0, "U", 0, 0>>, <<43584, "L", 0, "U", 0, 0>>,
       <<43587, "NSM", 1, "U", 0, 0>>, <<43588, "L", 0, "U", 0, 0>>,
       <<43596, "NSM", 1, "U", 0, 0>>, <<43597, "L", 1, "U", 0, 0>>, <<43598, "X", 0, "U", 0, 0>>,
       <<43600, "L", 0, "U", 0, 0>>, <<43610, "X", 0, "U", 0, 0>>, <<43612, "L", 0, "U", 0, 0>>,
       <<43643, "L", 1, "U", 0, 0>>, <<43644, "NSM", 1, "U", 0, 0>>, <<43645, "L", 1, "U", 0, 0>>,
       <<43646, "L", 0, "U", 0, 0>>, <<43696, "NSM", 1, "U", 230, 0>>,
       <<43697, "L", 0, "U", 0, 0>>, <<43698, "NSM", 1, "U", 230, 0>>,
       <<43700, "NSM", 1, "U", 220, 0>>, <<43701, "L", 0, "U", 0, 0>>,
       <<43703, "NSM", 1, "U", 230, 0>>, <<43705, "L", 0, "U", 0, 0>>,
       <<43710, "NSM", 1, "U", 230, 0>>, <<43712, "L", 0, "U", 0, 0>>,
       <<43713, "NSM", 1, "U", 230, 0>>, <<43714, "L", 0, "U", 0, 0>>,
       <<43715, "X", 0, "U", 0, 0>>, <<43739, "L", 0, "U", 0, 0>>, <<43755, "L", 1, "U", 0, 0>>,
       <<43756, "NSM", 1, "U", 0, 0>>, <<43758, "L", 1, "U", 0, 0>>, <<43760, "L", 0, "U", 0, 0>>,
       <<43765, "L", 1, "U", 0, 0>>, <<43766, "NSM", 1, "U", 9, 1>>, <<43767, "X", 0, "U", 0, 0>>,
       <<43777, "L", 0, "U", 0, 0>>, <<43783, "X", 0, "U", 0, 0>>, <<43785, "L", 0, "U", 0, 0>>,
       <<43791, "X", 0, "U", 0, 0>>, <<43793, "L", 0, "U", 0, 0>>, <<43799, "X", 0, "U", 0, 0>>,
       <<43808, "L", 0, "U", 0, 0>>, <<43815, "X", 0, "U", 0, 0>>, <<43816, "L", 0, "U", 0, 0>>,
       <<43823, "X", 0, "U", 0, 0>>, <<43824, "L", 0, "U", 0, 0>>, <<43882, "ON", 0, "U", 0, 0>>,
       <<43884, "X", 0, "U", 0, 0>>, <<43888, "L", 0, "U", 0, 0>>, <<44003, "L", 1, "U", 0, 0>>,
       <<44005, "NSM", 1, "U", 0, 0>>, <<44006, "L", 1, "U", 0, 0>>,
       <<44008, "NSM", 1, "U", 0, 0>>, <<44009, "L", 1, "U", 0, 0>>, <<44011, "L", 0, "U", 0, 0>>,
       <<44012, "L", 1, "U", 0, 0>>, <<44013, "NSM", 1, "U", 9, 1>>, <<44014, "X", 0, "U", 0, 0>>,
       <<44016, "L", 0, "U", 0, 0>>, <<44026, "X", 0, "U", 0, 0>>, <<44032, "L", 0, "U", 0, 0>>,
       <<55204, "X", 0, "U", 0, 0>>, <<55216, "L", 0, "U", 0, 0>>, <<55239, "X", 0, "U", 0, 0>>,
       <<55243, "L", 0, "U", 0, 0>>, <<55292, "X", 0, "U", 0, 0>>, <<55296, "L", 0, "U", 0, 0>>,
       <<64110, "X", 0, "U", 0, 0>>, <<64112, "L", 0, "U", 0, 0>>, <<64218, "X", 0, "U", 0, 0>>,
       <<64256, "L", 0, "U", 0, 0>>, <<64263, "X", 0, "U", 0, 0>>, <<64275, "L", 0, "U", 0, 0>>,
       <<64280, "X", 0, "U", 0, 0>>, <<64285, "R", 0, "U", 0, 0>>, <<64286, "NSM", 1, "U", 26, 0>>,
       <<64287, "R", 0, "U", 0, 0>>, <<64297, "ES", 0, "U", 0, 0>>, <<64298, "R", 0, "U", 0, 0>>,
       <<64311, "X", 0, "U", 0, 0>>, <<64312, "R", 0, "U", 0, 0>>, <<64317, "X", 0, "U", 0, 0>>,
       <<64318, "R", 0, "U", 0, 0>>, <<64319, "X", 0, "U", 0, 0>>, <<64320, "R", 0, "U", 0, 0>>,
       <<64322, "X", 0, "U", 0, 0>>, <<64323, "R", 0, "U", 0, 0>>, <<64325, "X", 0, "U", 0, 0>>,
       <<64326, "R", 0, "U", 0, 0>>, <<64336, "AL", 0, "U", 0, 0>>, <<64450, "X", 0, "U", 0, 0>>,
       <<64467, "AL", 0, "U", 0, 0>>, <<64830, "ON", 0, "U", 0, 0>>, <<64832, "X", 0, "U", 0, 0>>,
       <<64848, "AL", 0, "U", 0, 0>>, <<64912, "X", 0, "U", 0, 0>>, <<64914, "AL", 0, "U", 0, 0>>,
       <<64968, "X", 0, "U", 0, 0>>, <<64976, "BN", 0, "U", 0, 0>>, <<65008, "AL", 0, "U", 0, 0>>,
       <<65021, "ON", 0, "U", 0, 0>>, <<65022, "X", 0, "U", 0, 0>>, <<65024, "NSM", 1, "U", 0, 0>>,
       <<65040, "ON", 0, "U", 0, 0>>, <<65050, "X", 0, "U", 0, 0>>,
       <<65056, "NSM", 1, "U", 230, 0>>, <<65063, "NSM", 1, "U", 220, 0>>,
       <<65070, "NSM", 1, "U", 230, 0>>, <<65072, "ON", 0, "U", 0, 0>>,
       <<65104, "CS", 0, "U", 0, 0>>, <<65105, "ON", 0, "U", 0, 0>>, <<65106, "CS", 0, "U", 0, 0>>,
       <<65107, "X", 0, "U", 0, 0>>, <<65108, "ON", 0, "U", 0, 0>>, <<65109, "CS", 0, "U", 0, 0>>,
       <<65110, "ON", 0, "U", 0, 0>>, <<65119, "ET", 0, "U", 0, 0>>, <<65120, "ON", 0, "U", 0, 0>>,
       <<65122, "ES", 0, "U", 0, 0>>, <<65124, "ON", 0, "U", 0, 0>>, <<65127, "X", 0, "U", 0, 0>>,
       <<65128, "ON", 0, "U", 0, 0>>, <<65129, "ET", 0, "U", 0, 0>>, <<65131, "ON", 0, "U", 0, 0>>,
       <<65132, "X", 0, "U", 0, 0>>, <<65136, "AL", 0, "U", 0, 0>>, <<65141, "X", 0, "U", 0, 0>>,
       <<65142, "AL", 0, "U", 0, 0>>, <<65277, "X", 0, "U", 0, 0>>, <<65279, "BN", 0, "U", 0, 0>>,
       <<65280, "X", 0, "U", 0, 0>>, <<65281, "ON", 0, "U", 0, 0>>, <<65283, "ET", 0, "U", 0, 0>>,
       <<65286, "ON", 0, "U", 0, 0>>, <<65291, "ES", 0, "U", 0, 0>>, <<65292, "CS", 0, "U", 0, 0>>,
       <<65293, "ES", 0, "U", 0, 0>>, <<65294, "CS", 0, "U", 0, 0>>, <<65296, "EN", 0, "U", 0, 0>>,
       <<65306, "CS", 0, "U", 0, 0>>, <<65307, "ON", 0, "U", 0, 0>>, <<65313, "L", 0, "U", 0, 0>>,
       <<65339, "ON", 0, "U", 0, 0>>, <<65345, "L", 0, "U", 0, 0>>, <<65371, "ON", 0, "U", 0, 0>>,
       <<65382, "L", 0, "U", 0, 0>>, <<65471, "X", 0, "U", 0, 0>>, <<65474, "L", 0, "U", 0, 0>>,
       <<65480, "X", 0, "U", 0, 0>>, <<65482, "L", 0, "U", 0, 0>>, <<65488, "X", 0, "U", 0, 0>>,
       <<65490, "L", 0, "U", 0, 0>>, <<65496, "X", 0, "U", 0, 0>>, <<65498, "L", 0, "U", 0, 0>>,
       <<65501, "X", 0, "U", 0, 0>>, <<65504, "ET", 0, "U", 0, 0>>, <<65506, "ON", 0, "U", 0, 0>>,
       <<65509, "ET", 0, "U", 0, 0>>, <<65511, "X", 0, "U", 0, 0>>, <<65512, "ON", 0, "U", 0, 0>>,
       <<65519, "X", 0, "U", 0, 0>>, <<65529, "ON", 0, "U", 0, 0>>, <<65534, "BN", 0, "U", 0, 0>>,
       <<65536, "L", 0, "U", 0, 0>>, <<65548, "X", 0, "U", 0, 0>>, <<65549, "L", 0, "U", 0, 0>>,
       <<65575, "X", 0, "U", 0, 0>>, <<65576, "L", 0, "U", 0, 0>>, <<65595, "X", 0, "U", 0, 0>>,
       <<65596, "L", 0, "U", 0, 0>>, <<65598, "X", 0, "U", 0, 0>>, <<65599, "L", 0, "U", 0, 0>>,
       <<65614, "X", 0, "U", 0, 0>>, <<65616, "L", 0, "U", 0, 0>>, <<65630, "X", 0, "U", 0, 0>>,
       <<65664, "L", 0, "U", 0, 0>>, <<65787, "X", 0, "U", 0, 0>>, <<65792, "L", 0, "U", 0, 0>>,
       <<65793, "ON", 0, "U", 0, 0>>, <<65794, "L", 0, "U", 0, 0>>, <<65795, "X", 0, "U", 0, 0>>,
       <<65799, "L", 0, "U", 0, 0>>, <<65844, "X", 0, "U", 0, 0>>, <<65847, "L", 0, "U", 0, 0>>,
       <<65856, "ON", 0, "U", 0, 0>>, <<65933, "L", 0, "U", 0, 0>>, <<65935, "X", 0, "U", 0, 0>>,
       <<65936, "ON", 0, "U", 0, 0>>, <<65949, "X", 0, "U", 0, 0>>, <<65952, "ON", 0, "U", 0, 0>>,
       <<65953, "X", 0, "U", 0, 0>>, <<66000, "L", 0, "U", 0, 0>>,
       <<66045, "NSM", 1, "U", 220, 0>>, <<66046, "X", 0, "U", 0, 0>>,
       <<66176, "L", 0, "U", 0, 0>>, <<66205, "X", 0, "U", 0, 0>>, <<66208, "L", 0, "U", 0, 0>>,
       <<66257, "X", 0, "U", 0, 0>>, <<66272, "NSM", 1, "U", 220, 0>>,
       <<66273, "EN", 0, "U", 0, 0>>, <<66300, "X", 0, "U", 0, 0>>, <<66304, "L", 0, "U", 0, 0>>,
       <<66340, "X", 0, "U", 0, 0>>, <<66349, "L", 0, "U", 0, 0>>, <<66379, "X", 0, "U", 0, 0>>,
       <<66384, "L", 0, "U", 0, 0>>, <<66422, "NSM", 1, "U", 230, 0>>,
       <<66427, "X", 0, "U", 0, 0>>, <<66432, "L", 0, "U", 0, 0>>, <<66462, "X", 0, "U", 0, 0>>,
       <<66463, "L", 0, "U", 0, 0>>, <<66500, "X", 0, "U", 0, 0>>, <<66504, "L", 0, "U", 0, 0>>,
       <<66518, "X", 0, "U", 0, 0>>, <<66560, "L", 0, "U", 0, 0>>, <<66718, "X", 0, "U", 0, 0>>,
       <<66720, "L", 0, "U", 0, 0>>, <<66730, "X", 0, "U", 0, 0>>, <<66736, "L", 0, "U", 0, 0>>,
       <<66772, "X", 0, "U", 0, 0>>, <<66776, "L", 0, "U", 0, 0>>, <<66812, "X", 0, "U", 0, 0>>,
       <<66816, "L", 0, "U", 0, 0>>, <<66856, "X", 0, "U", 0, 0>>, <<66864, "L", 0, "U", 0, 0>>,
       <<66916, "X", 0, "U", 0, 0>>, <<66927, "L", 0, "U", 0, 0>>, <<66928, "X", 0, "U", 0, 0>>,
       <<67072, "L", 0, "U", 0, 0>>, <<67383, "X", 0, "U", 0, 0>>, <<67392, "L", 0, "U", 0, 0>>,
       <<67414, "X", 0, "U", 0, 0>>, <<67424, "L", 0, "U", 0, 0>>, <<67432, "X", 0, "U", 0, 0>>,
       <<67584, "R", 0, "U", 0, 0>>, <<67590, "X", 0, "U", 0, 0>>, <<67592, "R", 0, "U", 0, 0>>,
       <<67593, "X", 0, "U", 0, 0>>, <<67594, "R", 0, "U", 0, 0>>, <<67638, "X", 0, "U", 0, 0>>,
       <<67639, "R", 0, "U", 0, 0>>, <<67641, "X", 0, "U", 0, 0>>, <<67644, "R", 0, "U", 0, 0>>,
       <<67645, "X", 0, "U", 0, 0>>, <<67647, "R", 0, "U", 0, 0>>, <<67670, "X", 0, "U", 0, 0>>,
       <<67671, "R", 0, "U", 0, 0>>, <<67743, "X", 0, "U", 0, 0>>, <<67751, "R", 0, "U", 0, 0>>,
       <<67760, "X", 0, "U", 0, 0>>, <<67808, "R", 0, "U", 0, 0>>, <<67827, "X", 0, "U", 0, 0>>,
       <<67828, "R", 0, "U", 0, 0>>, <<67830, "X", 0, "U", 0, 0>>, <<67835, "R", 0, "U", 0, 0>>,
       <<67868, "X", 0, "U", 0, 0>>, <<67871, "ON", 0, "U", 0, 0>>, <<67872, "R", 0, "U", 0, 0>>,
       <<67898, "X", 0, "U", 0, 0>>, <<67903, "R", 0, "U", 0, 0>>, <<67904, "X", 0, "U", 0, 0>>,
       <<67968, "R", 0, "U", 0, 0>>, <<68024, "X", 0, "U", 0, 0>>, <<68028, "R", 0, "U", 0, 0>>,
       <<68048, "X", 0, "U", 0, 0>>, <<68050, "R", 0, "U", 0, 0>>, <<68097, "NSM", 1, "U", 0, 0>>,
       <<68100, "X", 0, "U", 0, 0>>, <<68101, "NSM", 1, "U", 0, 0>>, <<68103, "X", 0, "U", 0, 0>>,
       <<68108, "NSM", 1, "U", 0, 0>>, <<68109, "NSM", 1, "U", 220, 0>>,
       <<68110, "NSM", 1, "U", 0, 0>>, <<68111, "NSM", 1, "U", 230, 0>>,
       <<68112, "R", 0, "U", 0, 0>>, <<68116, "X", 0, "U", 0, 0>>, <<68117, "R", 0, "U", 0, 0>>,
       <<68120, "X", 0, "U", 0, 0>>, <<68121, "R", 0, "U", 0, 0>>, <<68150, "X", 0, "U", 0, 0>>,
       <<68152, "NSM", 1, "U", 230, 0>>, <<68153, "NSM", 1, "U", 1, 0>>,
       <<68154, "NSM", 1, "U", 220, 0>>, <<68155, "X", 0, "U", 0, 0>>,
       <<68159, "NSM", 1, "U", 9, 1>>, <<68160, "R", 0, "U", 0, 0>>, <<68169, "X", 0, "U", 0, 0>>,
       <<68176, "R", 0, "U", 0, 0>>, <<68185, "X", 0, "U", 0, 0>>, <<68192, "R", 0, "U", 0, 0>>,
       <<68256, "X", 0, "U", 0, 0>>, <<68288, "R", 0, "U", 0, 0>>,
       <<68325, "NSM", 1, "U", 230, 0>>, <<68326, "NSM", 1, "U", 220, 0>>,
       <<68327, "X", 0, "U", 0, 0>>, <<68331, "R", 0, "U", 0, 0>>, <<68343, "X", 0, "U", 0, 0>>,
       <<68352, "R", 0, "U", 0, 0>>, <<68406, "X", 0, "U", 0, 0>>, <<68409, "ON", 0, "U", 0, 0>>,
       <<68416, "R", 0, "U", 0, 0>>, <<68438, "X", 0, "U", 0, 0>>, <<68440, "R", 0, "U", 0, 0>>,
       <<68467, "X", 0, "U", 0, 0>>, <<68472, "R", 0, "U", 0, 0>>, <<68498, "X", 0, "U", 0, 0>>,
       <<68505, "R", 0, "U", 0, 0>>, <<68509, "X", 0, "U", 0, 0>>, <<68521, "R", 0, "U", 0, 0>>,
       <<68528, "X", 0, "U", 0, 0>>, <<68608, "R", 0, "U", 0, 0>>, <<68681, "X", 0, "U", 0, 0>>,
       <<68736, "R", 0, "U", 0, 0>>, <<68787, "X", 0, "U", 0, 0>>, <<68800, "R", 0, "U", 0, 0>>,
       <<68851, "X", 0, "U", 0, 0>>, <<68858, "R", 0, "U", 0, 0>>, <<68864, "AL", 0, "U", 0, 0>>,
       <<68900, "NSM", 1, "U", 230, 0>>, <<68904, "X", 0, "U", 0, 0>>,
       <<68912, "AN", 0, "U", 0, 0>>, <<68922, "X", 0, "U", 0, 0>>, <<69216, "AN", 0, "U", 0, 0>>,
       <<69247, "X", 0, "U", 0, 0>>, <<69248, "R", 0, "U", 0, 0>>, <<69290, "X", 0, "U", 0, 0>>,
       <<69291, "NSM", 1, "U", 230, 0>>, <<69293, "R", 0, "U", 0, 0>>,
       <<69294, "X", 0, "U", 0, 0>>, <<69296, "R", 0, "U", 0, 0>>, <<69298, "X", 0, "U", 0, 0>>,
       <<69373, "X", 0, "U", 220, 0>>, <<69376, "R", 0, "U", 0, 0>>, <<69416, "X", 0, "U", 0, 0>>,
       <<69424, "AL", 0, "U", 0, 0>>, <<69446, "NSM", 1, "U", 220, 0>>,
       <<69448, "NSM", 1, "U", 230, 0>>, <<69451, "NSM", 1, "U", 220, 0>>,
       <<69452, "NSM", 1, "U", 230, 0>>, <<69453, "NSM", 1, "U", 220, 0>>,
       <<69457, "AL", 0, "U", 0, 0>>, <<69466, "X", 0, "U", 0, 0>>, <<69506, "X", 0, "U", 230, 0>>,
       <<69507, "X", 0, "U", 220, 0>>, <<69508, "X", 0, "U", 230, 0>>,
       <<69509, "X", 0, "U", 220, 0>>, <<69510, "X", 0, "U", 0, 0>>, <<69552, "R", 0, "U", 0, 0>>,
       <<69580, "X", 0, "U", 0, 0>>, <<69600, "R", 0, "U", 0, 0>>, <<69623, "X", 0, "U", 0, 0>>,
       <<69632, "L", 1, "U", 0, 0>>, <<69633, "NSM", 1, "U", 0, 0>>, <<69634, "L", 1, "U", 0, 0>>,
       <<69635, "L", 0, "U", 0, 0>>, <<69688, "NSM", 1, "U", 0, 0>>,
       <<69702, "NSM", 1, "U", 9, 1>>, <<69703, "L", 0, "U", 0, 0>>, <<69710, "X", 0, "U", 0, 0>>,
       <<69714, "ON", 0, "U", 0, 0>>, <<69734, "L", 0, "U", 0, 0>>, <<69744, "X", 0, "U", 9, 0>>,
       <<69745, "X", 0, "U", 0, 0>>, <<69759, "NSM", 1, "U", 9, 1>>,
       <<69760, "NSM", 1, "U", 0, 0>>, <<69762, "L", 1, "U", 0, 0>>, <<69763, "L", 0, "U", 0, 0>>,
       <<69808, "L", 1, "U", 0, 0>>, <<69811, "NSM", 1, "U", 0, 0>>, <<69815, "L", 1, "U", 0, 0>>,
       <<69817, "NSM", 1, "U", 9, 1>>, <<69818, "NSM", 1, "U", 7, 0>>,
       <<69819, "L", 0, "U", 0, 0>>, <<69826, "X", 0, "U", 0, 0>>, <<69837, "L", 0, "U", 0, 0>>,
       <<69838, "X", 0, "U", 0, 0>>, <<69840, "L", 0, "U", 0, 0>>, <<69865, "X", 0, "U", 0, 0>>,
       <<69872, "L", 0, "U", 0, 0>>, <<69882, "X", 0, "U", 0, 0>>,
       <<69888, "NSM", 1, "U", 230, 0>>, <<69891, "L", 0, "U", 0, 0>>,
       <<69927, "NSM", 1, "U", 0, 0>>, <<69932, "L", 1, "U", 0, 0>>,
       <<69933, "NSM", 1, "U", 0, 0>>, <<69939, "NSM", 1, "U", 9, 1>>,
       <<69941, "X", 0, "U", 0, 0>>, <<69942, "L", 0, "U", 0, 0>>, <<69957, "L", 1, "U", 0, 0>>,
       <<69959, "L", 0, "U", 0, 0>>, <<69960, "X", 0, "U", 0, 0>>, <<69968, "L", 0, "U", 0, 0>>,
       <<70003, "NSM", 1, "U", 7, 0>>, <<70004, "L", 0, "U", 0, 0>>, <<70007, "X", 0, "U", 0, 0>>,
       <<70016, "NSM", 1, "U", 0, 0>>, <<70018, "L", 1, "U", 0, 0>>, <<70019, "L", 0, "U", 0, 0>>,
       <<70067, "L", 1, "U", 0, 0>>, <<70070, "NSM", 1, "U", 0, 0>>, <<70079, "L", 1, "U", 0, 0>>,
       <<70080, "L", 1, "U", 9, 1>>, <<70081, "L", 0, "U", 0, 0>>, <<70089, "NSM", 1, "U", 0, 0>>,
       <<70090, "NSM", 1, "U", 7, 0>>, <<70091, "NSM", 1, "U", 0, 0>>,
       <<70093, "L", 0, "U", 0, 0>>, <<70094, "L", 1, "U", 0, 0>>, <<70095, "NSM", 1, "U", 0, 0>>,
       <<70096, "L", 0, "U", 0, 0>>, <<70112, "X", 0, "U", 0, 0>>, <<70113, "L", 0, "U", 0, 0>>,
       <<70133, "X", 0, "U", 0, 0>>, <<70144, "L", 0, "U", 0, 0>>, <<70162, "X", 0, "U", 0, 0>>,
       <<70163, "L", 0, "U", 0, 0>>, <<70188, "L", 1, "U", 0, 0>>, <<70191, "NSM", 1, "U", 0, 0>>,
       <<70194, "L", 1, "U", 0, 0>>, <<70196, "NSM", 1, "U", 0, 0>>, <<70197, "L", 1, "U", 9, 1>>,
       <<70198, "NSM", 1, "U", 7, 0>>, <<70199, "NSM", 1, "U", 0, 0>>,
       <<70200, "L", 0, "U", 0, 0>>, <<70206, "NSM", 1, "U", 0, 0>>, <<70207, "X", 0, "U", 0, 0>>,
       <<70272, "L", 0, "U", 0, 0>>, <<70279, "X", 0, "U", 0, 0>>, <<70280, "L", 0, "U", 0, 0>>,
       <<70281, "X", 0, "U", 0, 0>>, <<70282, "L", 0, "U", 0, 0>>, <<70286, "X", 0, "U", 0, 0>>,
       <<70287, "L", 0, "U", 0, 0>>, <<70302, "X", 0, "U", 0, 0>>, <<70303, "L", 0, "U", 0, 0>>,
       <<70314, "X", 0, "U", 0, 0>>, <<70320, "L", 0, "U", 0, 0>>, <<70367, "NSM", 1, "U", 0, 0>>,
       <<70368, "L", 1, "U", 0, 0>>, <<70371, "NSM", 1, "U", 0, 0>>,
       <<70377, "NSM", 1, "U", 7, 0>>, <<70378, "NSM", 1, "U", 9, 1>>,
       <<70379, "X", 0, "U", 0, 0>>, <<70384, "L", 0, "U", 0, 0>>, <<70394, "X", 0, "U", 0, 0>>,
       <<70400, "NSM", 1, "U", 0, 0>>, <<70402, "L", 1, "U", 0, 0>>, <<70404, "X", 0, "U", 0, 0>>,
       <<70405, "L", 0, "U", 0, 0>>, <<70413, "X", 0, "U", 0, 0>>, <<70415, "L", 0, "U", 0, 0>>,
       <<70417, "X", 0, "U", 0, 0>>, <<70419, "L", 0, "U", 0, 0>>, <<70441, "X", 0, "U", 0, 0>>,
       <<70442, "L", 0, "U", 0, 0>>, <<70449, "X", 0, "U", 0, 0>>, <<70450, "L", 0, "U", 0, 0>>,
       <<70452, "X", 0, "U", 0, 0>>, <<70453, "L", 0, "U", 0, 0>>, <<70458, "X", 0, "U", 0, 0>>,
       <<70459, "NSM", 1, "U", 7, 0>>, <<70461, "L", 0, "U", 0, 0>>, <<70462, "L", 1, "U", 0, 0>>,
       <<70464, "NSM", 1, "U", 0, 0>>, <<70465, "L", 1, "U", 0, 0>>, <<70469, "X", 0, "U", 0, 0>>,
       <<70471, "L", 1, "U", 0, 0>>, <<70473, "X", 0, "U", 0, 0>>, <<70475, "L", 1, "U", 0, 0>>,
       <<70477, "L", 1, "U", 9, 1>>, <<70478, "X", 0, "U", 0, 0>>, <<70480, "L", 0, "U", 0, 0>>,
       <<70481, "X", 0, "U", 0, 0>>, <<70487, "L", 1, "U", 0, 0>>, <<70488, "X", 0, "U", 0, 0>>,
       <<70493, "L", 0, "U", 0, 0>>, <<70498, "L", 1, "U", 0, 0>>, <<70500, "X", 0, "U", 0, 0>>,
       <<70502, "NSM", 1, "U", 230, 0>>, <<70509, "X", 0, "U", 0, 0>>,
       <<70512, "NSM", 1, "U", 230, 0>>, <<70517, "X", 0, "U", 0, 0>>,
       <<70656, "L", 0, "U", 0, 0>>, <<70709, "L", 1, "U", 0, 0>>, <<70712, "NSM", 1, "U", 0, 0>>,
       <<70720, "L", 1, "U", 0, 0>>, <<70722, "NSM", 1, "U", 9, 1>>,
       <<70723, "NSM", 1, "U", 0, 0>>, <<70725, "L", 1, "U", 0, 0>>,
       <<70726, "NSM", 1, "U", 7, 0>>, <<70727, "L", 0, "U", 0, 0>>, <<70748, "X", 0, "U", 0, 0>>,
       <<70749, "L", 0, "U", 0, 0>>, <<70750, "NSM", 1, "U", 230, 0>>,
       <<70751, "L", 0, "U", 0, 0>>, <<70754, "X", 0, "U", 0, 0>>, <<70784, "L", 0, "U", 0, 0>>,
       <<70832, "L", 1, "U", 0, 0>>, <<70835, "NSM", 1, "U", 0, 0>>, <<70841, "L", 1, "U", 0, 0>>,
       <<70842, "NSM", 1, "U", 0, 0>>, <<70843, "L", 1, "U", 0, 0>>,
       <<70847, "NSM", 1, "U", 0, 0>>, <<70849, "L", 1, "U", 0, 0>>,
       <<70850, "NSM", 1, "U", 9, 1>>, <<70851, "NSM", 1, "U", 7, 0>>,
       <<70852, "L", 0, "U", 0, 0>>, <<70856, "X", 0, "U", 0, 0>>, <<70864, "L", 0, "U", 0, 0>>,
       <<70874, "X", 0, "U", 0, 0>>, <<71040, "L", 0, "U", 0, 0>>, <<71087, "L", 1, "U", 0, 0>>,
       <<71090, "NSM", 1, "U", 0, 0>>, <<71094, "X", 0, "U", 0, 0>>, <<71096, "L", 1, "U", 0, 0>>,
       <<71100, "NSM", 1, "U", 0, 0>>, <<71102, "L", 1, "U", 0, 0>>,
       <<71103, "NSM", 1, "U", 9, 1>>, <<71104, "NSM", 1, "U", 7, 0>>,
       <<71105, "L", 0, "U", 0, 0>>, <<71132, "NSM", 1, "U", 0, 0>>, <<71134, "X", 0, "U", 0, 0>>,
       <<71168, "L", 0, "U", 0, 0>>, <<71216, "L", 1, "U", 0, 0>>, <<71219, "NSM", 1, "U", 0, 0>>,
       <<71227, "L", 1, "U", 0, 0>>, <<71229, "NSM", 1, "U", 0, 0>>, <<71230, "L", 1, "U", 0, 0>>,
       <<71231, "NSM", 1, "U", 9, 1>>, <<71232, "NSM", 1, "U", 0, 0>>,
       <<71233, "L", 0, "U", 0, 0>>, <<71237, "X", 0, "U", 0, 0>>, <<71248, "L", 0, "U", 0, 0>>,
       <<71258, "X", 0, "U", 0, 0>>, <<71264, "ON", 0, "U", 0, 0>>, <<71277, "X", 0, "U", 0, 0>>,
       <<71296, "L", 0, "U", 0, 0>>, <<71339, "NSM", 1, "U", 0, 0>>, <<71340, "L", 1, "U", 0, 0>>,
       <<71341, "NSM", 1, "U", 0, 0>>, <<71342, "L", 1, "U", 0, 0>>,
       <<71344, "NSM", 1, "U", 0, 0>>, <<71350, "L", 1, "U", 9, 1>>,
       <<71351, "NSM", 1, "U", 7, 0>>, <<71352, "L", 0, "U", 0, 0>>, <<71353, "X", 0, "U", 0, 0>>,
       <<71360, "L", 0, "U", 0, 0>>, <<71370, "X", 0, "U", 0, 0>>, <<71424, "L", 0, "U", 0, 0>>,
       <<71451, "X", 0, "U", 0, 0>>, <<71453, "NSM", 1, "U", 0, 0>>, <<71456, "L", 1, "U", 0, 0>>,
       <<71458, "NSM", 1, "U", 0, 0>>, <<71462, "L", 1, "U", 0, 0>>,
       <<71463, "NSM", 1, "U", 0, 0>>, <<71467, "NSM", 1, "U", 9, 1>>,
       <<71468, "X", 0, "U", 0, 0>>, <<71472, "L", 0, "U", 0, 0>>, <<71488, "X", 0, "U", 0, 0>>,
       <<71680, "L", 0, "U", 0, 0>>, <<71724, "L", 1, "U", 0, 0>>, <<71727, "NSM", 1, "U", 0, 0>>,
       <<71736, "L", 1, "U", 0, 0>>, <<71737, "NSM", 1, "U", 9, 1>>,
       <<71738, "NSM", 1, "U", 7, 0>>, <<71739, "L", 0, "U", 0, 0>>, <<71740, "X", 0, "U", 0, 0>>,
       <<71840, "L", 0, "U", 0, 0>>, <<71923, "X", 0, "U", 0, 0>>, <<71935, "L", 0, "U", 0, 0>>,
       <<71943, "X", 0, "U", 0, 0>>, <<71945, "L", 0, "U", 0, 0>>, <<71946, "X", 0, "U", 0, 0>>,
       <<71948, "L", 0, "U", 0, 0>>, <<71956, "X", 0, "U", 0, 0>>, <<71957, "L", 0, "U", 0, 0>>,
       <<71959, "X", 0, "U", 0, 0>>, <<71960, "L", 0, "U", 0, 0>>, <<71984, "L", 1, "U", 0, 0>>,
       <<71990, "X", 0, "U", 0, 0>>, <<71991, "L", 1, "U", 0, 0>>, <<71993, "X", 0, "U", 0, 0>>,
       <<71995, "NSM", 1, "U", 0, 0>>, <<71997, "L", 1, "U", 9, 1>>,
       <<71998, "NSM", 1, "U", 9, 1>>, <<71999, "L", 0, "U", 0, 0>>, <<72000, "L", 1, "U", 0, 0>>,
       <<72001, "L", 0, "U", 0, 0>>, <<72002, "L", 1, "U", 0, 0>>, <<72003, "NSM", 1, "U", 7, 0>>,
       <<72004, "L", 0, "U", 0, 0>>, <<72007, "X", 0, "U", 0, 0>>, <<72016, "L", 0, "U", 0, 0>>,
       <<72026, "X", 0, "U", 0, 0>>, <<72096, "L", 0, "U", 0, 0>>, <<72104, "X", 0, "U", 0, 0>>,
       <<72106, "L", 0, "U", 0, 0>>, <<72145, "L", 1, "U", 0, 0>>, <<72148, "NSM", 1, "U", 0, 0>>,
       <<72152, "X", 0, "U", 0, 0>>, <<72154, "NSM", 1, "U", 0, 0>>, <<72156, "L", 1, "U", 0, 0>>,
       <<72160, "NSM", 1, "U", 9, 1>>, <<72161, "L", 0, "U", 0, 0>>, <<72164, "L", 1, "U", 0, 0>>,
       <<72165, "X", 0, "U", 0, 0>>, <<72192, "L", 0, "U", 0, 0>>, <<72193, "NSM", 1, "U", 0, 0>>,
       <<72199, "L", 1, "U", 0, 0>>, <<72201, "NSM", 1, "U", 0, 0>>, <<72203, "L", 0, "U", 0, 0>>,
       <<72243, "NSM", 1, "U", 0, 0>>, <<72244, "NSM", 1, "U", 9, 1>>,
       <<72245, "NSM", 1, "U", 0, 0>>, <<72249, "L", 1, "U", 0, 0>>, <<72250, "L", 0, "U", 0, 0>>,
       <<72251, "NSM", 1, "U", 0, 0>>, <<72255, "L", 0, "U", 0, 0>>,
       <<72263, "NSM", 1, "U", 9, 1>>, <<72264, "X", 0, "U", 0, 0>>, <<72272, "L", 0, "U", 0, 0>>,
       <<72273, "NSM", 1, "U", 0, 0>>, <<72279, "L", 1, "U", 0, 0>>,
       <<72281, "NSM", 1, "U", 0, 0>>, <<72284, "L", 0, "U", 0, 0>>,
       <<72330, "NSM", 1, "U", 0, 0>>, <<72343, "L", 1, "U", 0, 0>>,
       <<72344, "NSM", 1, "U", 0, 0>>, <<72345, "NSM", 1, "U", 9, 1>>,
       <<72346, "L", 0, "U", 0, 0>>, <<72355, "X", 0, "U", 0, 0>>, <<72384, "L", 0, "U", 0, 0>>,
       <<72441, "X", 0, "U", 0, 0>>, <<72704, "L", 0, "U", 0, 0>>, <<72713, "X", 0, "U", 0, 0>>,
       <<72714, "L", 0, "U", 0, 0>>, <<72751, "L", 1, "U", 0, 0>>, <<72752, "NSM", 1, "U", 0, 0>>,
       <<72759, "X", 0, "U", 0, 0>>, <<72760, "NSM", 1, "U", 0, 0>>, <<72766, "L", 1, "U", 0, 0>>,
       <<72767, "L", 1, "U", 9, 1>>, <<72768, "L", 0, "U", 0, 0>>, <<72774, "X", 0, "U", 0, 0>>,
       <<72784, "L", 0, "U", 0, 0>>, <<72813, "X", 0, "U", 0, 0>>, <<72816, "L", 0, "U", 0, 0>>,
       <<72848, "X", 0, "U", 0, 0>>, <<72850, "NSM", 1, "U", 0, 0>>, <<72872, "X", 0, "U", 0, 0>>,
       <<72873, "L", 1, "U", 0, 0>>, <<72874, "NSM", 1, "U", 0, 0>>, <<72881, "L", 1, "U", 0, 0>>,
       <<72882, "NSM", 1, "U", 0, 0>>, <<72884, "L", 1, "U", 0, 0>>,
       <<72885, "NSM", 1, "U", 0, 0>>, <<72887, "X", 0, "U", 0, 0>>, <<72960, "L", 0, "U", 0, 0>>,
       <<72967, "X", 0, "U", 0, 0>>, <<72968, "L", 0, "U", 0, 0>>, <<72970, "X", 0, "U", 0, 0>>,
       <<72971, "L", 0, "U", 0, 0>>, <<73009, "NSM", 1, "U", 0, 0>>, <<73015, "X", 0, "U", 0, 0>>,
       <<73018, "NSM", 1, "U", 0, 0>>, <<73019, "X", 0, "U", 0, 0>>,
       <<73020, "NSM", 1, "U", 0, 0>>, <<73022, "X", 0, "U", 0, 0>>,
       <<73023, "NSM", 1, "U", 0, 0>>, <<73026, "NSM", 1, "U", 7, 0>>,
       <<73027, "NSM", 1, "U", 0, 0>>, <<73028, "NSM", 1, "U", 9, 1>>,
       <<73030, "L", 0, "U", 0, 0>>, <<73031, "NSM", 1, "U", 0, 0>>, <<73032, "X", 0, "U", 0, 0>>,
       <<73040, "L", 0, "U", 0, 0>>, <<73050, "X", 0, "U", 0, 0>>, <<73056, "L", 0, "U", 0, 0>>,
       <<73062, "X", 0, "U", 0, 0>>, <<73063, "L", 0, "U", 0, 0>>, <<73065, "X", 0, "U", 0, 0>>,
       <<73066, "L", 0, "U", 0, 0>>, <<73098, "L", 1, "U", 0, 0>>, <<73103, "X", 0, "U", 0, 0>>,
       <<73104, "NSM", 1, "U", 0, 0>>, <<73106, "X", 0, "U", 0, 0>>, <<73107, "L", 1, "U", 0, 0>>,
       <<73109, "NSM", 1, "U", 0, 0>>, <<73110, "L", 1, "U", 0, 0>>,
       <<73111, "NSM", 1, "U", 9, 1>>, <<73112, "L", 0, "U", 0, 0>>, <<73113, "X", 0, "U", 0, 0>>,
       <<73120, "L", 0, "U", 0, 0>>, <<73130, "X", 0, "U", 0, 0>>, <<73440, "L", 0, "U", 0, 0>>,
       <<73459, "NSM", 1, "U", 0, 0>>, <<73461, "L", 1, "U", 0, 0>>, <<73463, "L", 0, "U", 0, 0>>,
       <<73465, "X", 0, "U", 0, 0>>, <<73537, "X", 0, "U", 9, 0>>, <<73539, "X", 0, "U", 0, 0>>,
       <<73648, "L", 0, "U", 0, 0>>, <<73649, "X", 0, "U", 0, 0>>, <<73664, "L", 0, "U", 0, 0>>,
       <<73685, "ON", 0, "U", 0, 0>>, <<73693, "ET", 0, "U", 0, 0>>, <<73697, "ON", 0, "U", 0, 0>>,
       <<73714, "X", 0, "U", 0, 0>>, <<73727, "L", 0, "U", 0, 0>>, <<74650, "X", 0, "U", 0, 0>>,
       <<74752, "L", 0, "U", 0, 0>>, <<74863, "X", 0, "U", 0, 0>>, <<74864, "L", 0, "U", 0, 0>>,
       <<74869, "X", 0, "U", 0, 0>>, <<74880, "L", 0, "U", 0, 0>>, <<75076, "X", 0, "U", 0, 0>>,
       <<77824, "L", 0, "U", 0, 0>>, <<78895, "X", 0, "U", 0, 0>>, <<78896, "L", 0, "U", 0, 0>>,
       <<78905, "X", 0, "U", 0, 0>>, <<82944, "L", 0, "U", 0, 0>>, <<83527, "X", 0, "U", 0, 0>>,
       <<92160, "L", 0, "U", 0, 0>>, <<92729, "X", 0, "U", 0, 0>>, <<92736, "L", 0, "U", 0, 0>>,
       <<92767, "X", 0, "U", 0, 0>>, <<92768, "L", 0, "U", 0, 0>>, <<92778, "X", 0, "U", 0, 0>>,
       <<92782, "L", 0, "U", 0, 0>>, <<92784, "X", 0, "U", 0, 0>>, <<92880, "L", 0, "U", 0, 0>>,
       <<92910, "X", 0, "U", 0, 0>>, <<92912, "NSM", 1, "U", 1, 0>>, <<92917, "L", 0, "U", 0, 0>>,
       <<92918, "X", 0, "U", 0, 0>>, <<92928, "L", 0, "U", 0, 0>>,
       <<92976, "NSM", 1, "U", 230, 0>>, <<92983, "L", 0, "U", 0, 0>>,
       <<92998, "X", 0, "U", 0, 0>>, <<93008, "L", 0, "U", 0, 0>>, <<93018, "X", 0, "U", 0, 0>>,
       <<93019, "L", 0, "U", 0, 0>>, <<93026, "X", 0, "U", 0, 0>>, <<93027, "L", 0, "U", 0, 0>>,
       <<93048, "X", 0, "U", 0, 0>>, <<93053, "L", 0, "U", 0, 0>>, <<93072, "X", 0, "U", 0, 0>>,
       <<93760, "L", 0, "U", 0, 0>>, <<93851, "X", 0, "U", 0, 0>>, <<93952, "L", 0, "U", 0, 0>>,
       <<94027, "X", 0, "U", 0, 0>>, <<94031, "NSM", 1, "U", 0, 0>>, <<94032, "L", 0, "U", 0, 0>>,
       <<94033, "L", 1, "U", 0, 0>>, <<94088, "X", 0, "U", 0, 0>>, <<94095, "NSM", 1, "U", 0, 0>>,
       <<94099, "L", 0, "U", 0, 0>>, <<94112, "X", 0, "U", 0, 0>>, <<94176, "L", 0, "U", 0, 0>>,
       <<94178, "ON", 0, "U", 0, 0>>, <<94179, "L", 0, "U", 0, 0>>, <<94180, "NSM", 1, "U", 0, 0>>,
       <<94181, "X", 0, "U", 0, 0>>, <<94192, "L", 1, "U", 6, 0>>, <<94194, "X", 0, "U", 0, 0>>,
       <<94208, "L", 0, "U", 0, 0>>, <<100344, "X", 0, "U", 0, 0>>, <<100352, "L", 0, "U", 0, 0>>,
       <<101590, "X", 0, "U", 0, 0>>, <<101632, "L", 0, "U", 0, 0>>, <<101641, "X", 0, "U", 0, 0>>,
       <<110592, "L", 0, "U", 0, 0>>, <<110879, "X", 0, "U", 0, 0>>, <<110928, "L", 0, "U", 0, 0>>,
       <<110931, "X", 0, "U", 0, 0>>, <<110948, "L", 0, "U", 0, 0>>, <<110952, "X", 0, "U", 0, 0>>,
       <<110960, "L", 0, "U", 0, 0>>, <<111356, "X", 0, "U", 0, 0>>, <<113664, "L", 0, "U", 0, 0>>,
       <<113771, "X", 0, "U", 0, 0>>, <<113776, "L", 0, "U", 0, 0>>, <<113789, "X", 0, "U", 0, 0>>,
       <<113792, "L", 0, "U", 0, 0>>, <<113801, "X", 0, "U", 0, 0>>, <<113808, "L", 0, "U", 0, 0>>,
       <<113818, "X", 0, "U", 0, 0>>, <<113820, "L", 0, "U", 0, 0>>,
       <<113821, "NSM", 1, "U", 0, 0>>, <<113822, "NSM", 1, "U", 1, 0>>,
       <<113823, "L", 0, "U", 0, 0>>, <<113824, "BN", 0, "U", 0, 0>>,
       <<113828, "X", 0, "U", 0, 0>>, <<118784, "L", 0, "U", 0, 0>>, <<119030, "X", 0, "U", 0, 0>>,
       <<119040, "L", 0, "U", 0, 0>>, <<119079, "X", 0, "U", 0, 0>>, <<119081, "L", 0, "U", 0, 0>>,
       <<119141, "L", 1, "U", 216, 0>>, <<119143, "NSM", 1, "U", 1, 0>>,
       <<119146, "L", 0, "U", 0, 0>>, <<119149, "L", 1, "U", 226, 0>>,
       <<119150, "L", 1, "U", 216, 0>>, <<119155, "BN", 0, "U", 0, 0>>,
       <<119163, "NSM", 1, "U", 220, 0>>, <<119171, "L", 0, "U", 0, 0>>,
       <<119173, "NSM", 1, "U", 230, 0>>, <<119178, "NSM", 1, "U", 220, 0>>,
       <<119180, "L", 0, "U", 0, 0>>, <<119210, "NSM", 1, "U", 230, 0>>,
       <<119214, "L", 0, "U", 0, 0>>, <<119273, "X", 0, "U", 0, 0>>,
       <<119296, "ON", 0, "U", 0, 0>>, <<119362, "NSM", 1, "U", 230, 0>>,
       <<119365, "ON", 0, "U", 0, 0>>, <<119366, "X", 0, "U", 0, 0>>,
       <<119520, "L", 0, "U", 0, 0>>, <<119540, "X", 0, "U", 0, 0>>,
       <<119552, "ON", 0, "U", 0, 0>>, <<119639, "X", 0, "U", 0, 0>>,
       <<119648, "L", 0, "U", 0, 0>>, <<119673, "X", 0, "U", 0, 0>>, <<119808, "L", 0, "U", 0, 0>>,
       <<119893, "X", 0, "U", 0, 0>>, <<119894, "L", 0, "U", 0, 0>>, <<119965, "X", 0, "U", 0, 0>>,
       <<119966, "L", 0, "U", 0, 0>>, <<119968, "X", 0, "U", 0, 0>>, <<119970, "L", 0, "U", 0, 0>>,
       <<119971, "X", 0, "U", 0, 0>>, <<119973, "L", 0, "U", 0, 0>>, <<119975, "X", 0, "U", 0, 0>>,
       <<119977, "L", 0, "U", 0, 0>>, <<119981, "X", 0, "U", 0, 0>>, <<119982, "L", 0, "U", 0, 0>>,
       <<119994, "X", 0, "U", 0, 0>>, <<119995, "L", 0, "U", 0, 0>>, <<119996, "X", 0, "U", 0, 0>>,
       <<119997, "L", 0, "U", 0, 0>>, <<120004, "X", 0, "U", 0, 0>>, <<120005, "L", 0, "U", 0, 0>>,
       <<120070, "X", 0, "U", 0, 0>>, <<120071, "L", 0, "U", 0, 0>>, <<120075, "X", 0, "U", 0, 0>>,
       <<120077, "L", 0, "U", 0, 0>>, <<120085, "X", 0, "U", 0, 0>>, <<120086, "L", 0, "U", 0, 0>>,
       <<120093, "X", 0, "U", 0, 0>>, <<120094, "L", 0, "U", 0, 0>>, <<120122, "X", 0, "U", 0, 0>>,
       <<120123, "L", 0, "U", 0, 0>>, <<120127, "X", 0, "U", 0, 0>>, <<120128, "L", 0, "U", 0, 0>>,
       <<120133, "X", 0, "U", 0, 0>>, <<120134, "L", 0, "U", 0, 0>>, <<120135, "X", 0, "U", 0, 0>>,
       <<120138, "L", 0, "U", 0, 0>>, <<120145, "X", 0, "U", 0, 0>>, <<120146, "L", 0, "U", 0, 0>>,
       <<120486, "X", 0, "U", 0, 0>>, <<120488, "L", 0, "U", 0, 0>>,
       <<120539, "ON", 0, "U", 0, 0>>, <<120540, "L", 0, "U", 0, 0>>,
       <<120597, "ON", 0, "U", 0, 0>>, <<120598, "L", 0, "U", 0, 0>>,
       <<120655, "ON", 0, "U", 0, 0>>, <<120656, "L", 0, "U", 0, 0>>,
       <<120713, "ON", 0, "U", 0, 0>>, <<120714, "L", 0, "U", 0, 0>>,
       <<120771, "ON", 0, "U", 0, 0>>, <<120772, "L", 0, "U", 0, 0>>,
       <<120780, "X", 0, "U", 0, 0>>, <<120782, "EN", 0, "U", 0, 0>>,
       <<120832, "L", 0, "U", 0, 0>>, <<121344, "NSM", 1, "U", 0, 0>>,
       <<121399, "L", 0, "U", 0, 0>>, <<121403, "NSM", 1, "U", 0, 0>>,
       <<121453, "L", 0, "U", 0, 0>>, <<121461, "NSM", 1, "U", 0, 0>>,
       <<121462, "L", 0, "U", 0, 0>>, <<121476, "NSM", 1, "U", 0, 0>>,
       <<121477, "L", 0, "U", 0, 0>>, <<121484, "X", 0, "U", 0, 0>>,
       <<121499, "NSM", 1, "U", 0, 0>>, <<121504, "X", 0, "U", 0, 0>>,
       <<121505, "NSM", 1, "U", 0, 0>>, <<121520, "X", 0, "U", 0, 0>>,
       <<122880, "NSM", 1, "U", 230, 0>>, <<122887, "X", 0, "U", 0, 0>>,
       <<122888, "NSM", 1, "U", 230, 0>>, <<122905, "X", 0, "U", 0, 0>>,
       <<122907, "NSM", 1, "U", 230, 0>>, <<122914, "X", 0, "U", 0, 0>>,
       <<122915, "NSM", 1, "U", 230, 0>>, <<122917, "X", 0, "U", 0, 0>>,
       <<122918, "NSM", 1, "U", 230, 0>>, <<122923, "X", 0, "U", 0, 0>>,
       <<123023, "X", 0, "U", 230, 0>>, <<123024, "X", 0, "U", 0, 0>>,
       <<123136, "L", 0, "U", 0, 0>>, <<123181, "X", 0, "U", 0, 0>>,
       <<123184, "NSM", 1, "U", 230, 0>>, <<123191, "L", 0, "U", 0, 0>>,
       <<123198, "X", 0, "U", 0, 0>>, <<123200, "L", 0, "U", 0, 0>>, <<123210, "X", 0, "U", 0, 0>>,
       <<123214, "L", 0, "U", 0, 0>>, <<123216, "X", 0, "U", 0, 0>>,
       <<123566, "X", 0, "U", 230, 0>>, <<123567, "X", 0, "U", 0, 0>>,
       <<123584, "L", 0, "U", 0, 0>>, <<123628, "NSM", 1, "U", 230, 0>>,
       <<123632, "L", 0, "U", 0, 0>>, <<123642, "X", 0, "U", 0, 0>>,
       <<123647, "ET", 0, "U", 0, 0>>, <<123648, "X", 0, "U", 0, 0>>,
       <<124140, "X", 0, "U", 232, 0>>, <<124142, "X", 0, "U", 220, 0>>,
       <<124143, "X", 0, "U", 230, 0>>, <<124144, "X", 0, "U", 0, 0>>,
       <<124928, "R", 0, "U", 0, 0>>, <<125125, "X", 0, "U", 0, 0>>, <<125127, "R", 0, "U", 0, 0>>,
       <<125136, "NSM", 1, "U", 220, 0>>, <<125143, "X", 0, "U", 0, 0>>,
       <<125184, "R", 0, "U", 0, 0>>, <<125252, "NSM", 1, "U", 230, 0>>,
       <<125258, "NSM", 1, "U", 7, 0>>, <<125259, "R", 0, "U", 0, 0>>,
       <<125260, "X", 0, "U", 0, 0>>, <<125264, "R", 0, "U", 0, 0>>, <<125274, "X", 0, "U", 0, 0>>,
       <<125278, "R", 0, "U", 0, 0>>, <<125280, "X", 0, "U", 0, 0>>,
       <<126065, "AL", 0, "U", 0, 0>>, <<126133, "X", 0, "U", 0, 0>>,
       <<126209, "AL", 0, "U", 0, 0>>, <<126270, "X", 0, "U", 0, 0>>,
       <<126464, "AL", 0, "U", 0, 0>>, <<126468, "X", 0, "U", 0, 0>>,
       <<126469, "AL", 0, "U", 0, 0>>, <<126496, "X", 0, "U", 0, 0>>,
       <<126497, "AL", 0, "U", 0, 0>>, <<126499, "X", 0, "U", 0, 0>>,
       <<126500, "AL", 0, "U", 0, 0>>, <<126501, "X", 0, "U", 0, 0>>,
       <<126503, "AL", 0, "U", 0, 0>>, <<126504, "X", 0, "U", 0, 0>>,
       <<126505, "AL", 0, "U", 0, 0>>, <<126515, "X", 0, "U", 0, 0>>,
       <<126516, "AL", 0, "U", 0, 0>>, <<126520, "X", 0, "U", 0, 0>>,
       <<126521, "AL", 0, "U", 0, 0>>, <<126522, "X", 0, "U", 0, 0>>,
       <<126523, "AL", 0, "U", 0, 0>>, <<126524, "X", 0, "U", 0, 0>>,
       <<126530, "AL", 0, "U", 0, 0>>, <<126531, "X", 0, "U", 0, 0>>,
       <<126535, "AL", 0, "U", 0, 0>>, <<126536, "X", 0, "U", 0, 0>>,
       <<126537, "AL", 0, "U", 0, 0>>, <<126538, "X", 0, "U", 0, 0>>,
       <<126539, "AL", 0, "U", 0, 0>>, <<126540, "X", 0, "U", 0, 0>>,
       <<126541, "AL", 0, "U", 0, 0>>, <<126544, "X", 0, "U", 0, 0>>,
       <<126545, "AL", 0, "U", 0, 0>>, <<126547, "X", 0, "U", 0, 0>>,
       <<126548, "AL", 0, "U", 0, 0>>, <<126549, "X", 0, "U", 0, 0>>,
       <<126551, "AL", 0, "U", 0, 0>>, <<126552, "X", 0, "U", 0, 0>>,
       <<126553, "AL", 0, "U", 0, 0>>, <<126554, "X", 0, "U", 0, 0>>,
       <<126555, "AL", 0, "U", 0, 0>>, <<126556, "X", 0, "U", 0, 0>>,
       <<126557, "AL", 0, "U", 0, 0>>, <<126558, "X", 0, "U", 0, 0>>,
       <<126559, "AL", 0, "U", 0, 0>>, <<126560, "X", 0, "U", 0, 0>>,
       <<126561, "AL", 0, "U", 0, 0>>, <<126563, "X", 0, "U", 0, 0>>,
       <<126564, "AL", 0, "U", 0, 0>>, <<126565, "X", 0, "U", 0, 0>>,
       <<126567, "AL", 0, "U", 0, 0>>, <<126571, "X", 0, "U", 0, 0>>,
       <<126572, "AL", 0, "U", 0, 0>>, <<126579, "X", 0, "U", 0, 0>>,
       <<126580, "AL", 0, "U", 0, 0>>, <<126584, "X", 0, "U", 0, 0>>,
       <<126585, "AL", 0, "U", 0, 0>>, <<126589, "X", 0, "U", 0, 0>>,
       <<126590, "AL", 0, "U", 0, 0>>, <<126591, "X", 0, "U", 0, 0>>,
       <<126592, "AL", 0, "U", 0, 0>>, <<126602, "X", 0, "U", 0, 0>>,
       <<126603, "AL", 0, "U", 0, 0>>, <<126620, "X", 0, "U", 0, 0>>,
       <<126625, "AL", 0, "U", 0, 0>>, <<126628, "X", 0, "U", 0, 0>>,
       <<126629, "AL", 0, "U", 0, 0>>, <<126634, "X", 0, "U", 0, 0>>,
       <<126635, "AL", 0, "U", 0, 0>>, <<126652, "X", 0, "U", 0, 0>>,
       <<126704, "ON", 0, "U", 0, 0>>, <<126706, "X", 0, "U", 0, 0>>,
       <<126976, "ON", 0, "U", 0, 0>>, <<127020, "X", 0, "U", 0, 0>>,
       <<127024, "ON", 0, "U", 0, 0>>, <<127124, "X", 0, "U", 0, 0>>,
       <<127136, "ON", 0, "U", 0, 0>>, <<127151, "X", 0, "U", 0, 0>>,
       <<127153, "ON", 0, "U", 0, 0>>, <<127168, "X", 0, "U", 0, 0>>,
       <<127169, "ON", 0, "U", 0, 0>>, <<127184, "X", 0, "U", 0, 0>>,
       <<127185, "ON", 0, "U", 0, 0>>, <<127222, "X", 0, "U", 0, 0>>,
       <<127232, "EN", 0, "U", 0, 0>>, <<127243, "ON", 0, "U", 0, 0>>,
       <<127248, "L", 0, "U", 0, 0>>, <<127279, "ON", 0, "U", 0, 0>>,
       <<127280, "L", 0, "U", 0, 0>>, <<127338, "ON", 0, "U", 0, 0>>,
       <<127344, "L", 0, "U", 0, 0>>, <<127405, "ON", 0, "U", 0, 0>>,
       <<127406, "X", 0, "U", 0, 0>>, <<127462, "L", 0, "U", 0, 0>>, <<127491, "X", 0, "U", 0, 0>>,
       <<127504, "L", 0, "U", 0, 0>>, <<127548, "X", 0, "U", 0, 0>>, <<127552, "L", 0, "U", 0, 0>>,
       <<127561, "X", 0, "U", 0, 0>>, <<127568, "L", 0, "U", 0, 0>>, <<127570, "X", 0, "U", 0, 0>>,
       <<127584, "ON", 0, "U", 0, 0>>, <<127590, "X", 0, "U", 0, 0>>,
       <<127744, "ON", 0, "U", 0, 0>>, <<128728, "X", 0, "U", 0, 0>>,
       <<128736, "ON", 0, "U", 0, 0>>, <<128749, "X", 0, "U", 0, 0>>,
       <<128752, "ON", 0, "U", 0, 0>>, <<128765, "X", 0, "U", 0, 0>>,
       <<128768, "ON", 0, "U", 0, 0>>, <<128884, "X", 0, "U", 0, 0>>,
       <<128896, "ON", 0, "U", 0, 0>>, <<128985, "X", 0, "U", 0, 0>>,
       <<128992, "ON", 0, "U", 0, 0>>, <<129004, "X", 0, "U", 0, 0>>,
       <<129024, "ON", 0, "U", 0, 0>>, <<129036, "X", 0, "U", 0, 0>>,
       <<129040, "ON", 0, "U", 0, 0>>, <<129096, "X", 0, "U", 0, 0>>,
       <<129104, "ON", 0, "U", 0, 0>>, <<129114, "X", 0, "U", 0, 0>>,
       <<129120, "ON", 0, "U", 0, 0>>, <<129160, "X", 0, "U", 0, 0>>,
       <<129168, "ON", 0, "U", 0, 0>>, <<129198, "X", 0, "U", 0, 0>>,
       <<129200, "ON", 0, "U", 0, 0>>, <<129202, "X", 0, "U", 0, 0>>,
       <<129280, "ON", 0, "U", 0, 0>>, <<129401, "X", 0, "U", 0, 0>>,
       <<129402, "ON", 0, "U", 0, 0>>, <<129484, "X", 0, "U", 0, 0>>,
       <<129485, "ON", 0, "U", 0, 0>>, <<129620, "X", 0, "U", 0, 0>>,
       <<129632, "ON", 0, "U", 0, 0>>, <<129646, "X", 0, "U", 0, 0>>,
       <<129648, "ON", 0, "U", 0, 0>>, <<129653, "X", 0, "U", 0, 0>>,
       <<129656, "ON", 0, "U", 0, 0>>, <<129659, "X", 0, "U", 0, 0>>,
       <<129664, "ON", 0, "U", 0, 0>>, <<129671, "X", 0, "U", 0, 0>>,
       <<129680, "ON", 0, "U", 0, 0>>, <<129705, "X", 0, "U", 0, 0>>,
       <<129712, "ON", 0, "U", 0, 0>>, <<129719, "X", 0, "U", 0, 0>>,
       <<129728, "ON", 0, "U", 0, 0>>, <<129731, "X", 0, "U", 0, 0>>,
       <<129744, "ON", 0, "U", 0, 0>>, <<129751, "X", 0, "U", 0, 0>>,
       <<129792, "ON", 0, "U", 0, 0>>, <<129939, "X", 0, "U", 0, 0>>,
       <<129940, "ON", 0, "U", 0, 0>>, <<129995, "X", 0, "U", 0, 0>>,
       <<130032, "EN", 0, "U", 0, 0>>, <<130042, "X", 0, "U", 0, 0>>,
       <<131070, "BN", 0, "U", 0, 0>>, <<131072, "L", 0, "U", 0, 0>>,
       <<173790, "X", 0, "U", 0, 0>>, <<173824, "L", 0, "U", 0, 0>>, <<177973, "X", 0, "U", 0, 0>>,
       <<177984, "L", 0, "U", 0, 0>>, <<178206, "X", 0, "U", 0, 0>>, <<178208, "L", 0, "U", 0, 0>>,
       <<183970, "X", 0, "U", 0, 0>>, <<183984, "L", 0, "U", 0, 0>>, <<191457, "X", 0, "U", 0, 0>>,
       <<194560, "L", 0, "U", 0, 0>>, <<195102, "X", 0, "U", 0, 0>>,
       <<196606, "BN", 0, "U", 0, 0>>, <<196608, "L", 0, "U", 0, 0>>,
       <<201547, "X", 0, "U", 0, 0>>, <<262142, "BN", 0, "U", 0, 0>>,
       <<262144, "X", 0, "U", 0, 0>>, <<327678, "BN", 0, "U", 0, 0>>,
       <<327680, "X", 0, "U", 0, 0>>, <<393214, "BN", 0, "U", 0, 0>>,
       <<393216, "X", 0, "U", 0, 0>>, <<458750, "BN", 0, "U", 0, 0>>,
       <<458752, "X", 0, "U", 0, 0>>, <<524286, "BN", 0, "U", 0, 0>>,
       <<524288, "X", 0, "U", 0, 0>>, <<589822, "BN", 0, "U", 0, 0>>,
       <<589824, "X", 0, "U", 0, 0>>, <<655358, "BN", 0, "U", 0, 0>>,
       <<655360, "X", 0, "U", 0, 0>>, <<720894, "BN", 0, "U", 0, 0>>,
       <<720896, "X", 0, "U", 0, 0>>, <<786430, "BN", 0, "U", 0, 0>>,
       <<786432, "X", 0, "U", 0, 0>>, <<851966, "BN", 0, "U", 0, 0>>,
       <<851968, "X", 0, "U", 0, 0>>, <<917502, "BN", 0, "U", 0, 0>>,
       <<917504, "X", 0, "U", 0, 0>>, <<917505, "BN", 0, "U", 0, 0>>,
       <<917506, "X", 0, "U", 0, 0>>, <<917536, "BN", 0, "U", 0, 0>>,
       <<917632, "X", 0, "U", 0, 0>>, <<917760, "NSM", 1, "U", 0, 0>>,
       <<918000, "X", 0, "U", 0, 0>>, <<983038, "BN", 0, "U", 0, 0>>,
       <<983040, "L", 0, "U", 0, 0>>, <<1048574, "BN", 0, "U", 0, 0>>,
       <<1048576, "L", 0, "U", 0, 0>>, <<1114110, "BN", 0, "U", 0, 0>>
    >>

\* The full canonical decomposition of the code points that have one, as
\* rows <<code point, decomposition>> (Hangul syllables left out).
DecompositionTable ==
    <<
       <<192, <<65, 768>>>>, <<193, <<65, 769>>>>, <<194, <<65, 770>>>>, <<195, <<65, 771>>>>,
       <<196, <<65, 776>>>>, <<197, <<65, 778>>>>, <<199, <<67, 807>>>>, <<200, <<69, 768>>>>,
       <<201, <<69, 769>>>>, <<202, <<69, 770>>>>, <<203, <<69, 776>>>>, <<204, <<73, 768>>>>,
       <<205, <<73, 769>>>>, <<206, <<73, 770>>>>, <<207, <<73, 776>>>>, <<209, <<78, 771>>>>,
       <<210, <<79, 768>>>>, <<211, <<79, 769>>>>, <<212, <<79, 770>>>>, <<213, <<79, 771>>>>,
       <<214, <<79, 776>>>>, <<217, <<85, 768>>>>, <<218, <<85, 769>>>>, <<219, <<85, 770>>>>,
       <<220, <<85, 776>>>>, <<221, <<89, 769>>>>, <<224, <<97, 768>>>>, <<225, <<97, 769>>>>,
       <<226, <<97, 770>>>>, <<227, <<97, 771>>>>, <<228, <<97, 776>>>>, <<229, <<97, 778>>>>,
       <<231, <<99, 807>>>>, <<232, <<101, 768>>>>, <<233, <<101, 769>>>>, <<234, <<101, 770>>>>,
       <<235, <<101, 776>>>>, <<236, <<105, 768>>>>, <<237, <<105, 769>>>>, <<238, <<105, 770>>>>,
       <<239, <<105, 776>>>>, <<241, <<110, 771>>>>, <<242, <<111, 768>>>>, <<243, <<111, 769>>>>,
       <<244, <<111, 770>>>>, <<245, <<111, 771>>>>, <<246, <<111, 776>>>>, <<249, <<117, 768>>>>,
       <<250, <<117, 769>>>>, <<251, <<117, 770>>>>, <<252, <<117, 776>>>>, <<253, <<121, 769>>>>,
       <<255, <<121, 776>>>>, <<256, <<65, 772>>>>, <<257, <<97, 772>>>>, <<258, <<65, 774>>>>,
       <<259, <<97, 774>>>>, <<260, <<65, 808>>>>, <<261, <<97, 808>>>>, <<262, <<67, 769>>>>,
       <<263, <<99, 769>>>>, <<264, <<67, 770>>>>, <<265, <<99, 770>>>>, <<266, <<67, 775>>>>,
       <<267, <<99, 775>>>>, <<268, <<67, 780>>>>, <<269, <<99, 780>>>>, <<270, <<68, 780>>>>,
       <<271, <<100, 780>>>>, <<274, <<69, 772>>>>, <<275, <<101, 772>>>>, <<276, <<69, 774>>>>,
       <<277, <<101, 774>>>>, <<278, <<69, 775>>>>, <<279, <<101, 775>>>>, <<280, <<69, 808>>>>,
       <<281, <<101, 808>>>>, <<282, <<69, 780>>>>, <<283, <<101, 780>>>>, <<284, <<71, 770>>>>,
       <<285, <<103, 770>>>>, <<286, <<71, 774>>>>, <<287, <<103, 774>>>>, <<288, <<71, 775>>>>,
       <<289, <<103, 775>>>>, <<290, <<71, 807>>>>, <<291, <<103, 807>>>>, <<292, <<72, 770>>>>,
       <<293, <<104, 770>>>>, <<296, <<73, 771>>>>, <<297, <<105, 771>>>>, <<298, <<73, 772>>>>,
       <<299, <<105, 772>>>>, <<300, <<73, 774>>>>, <<301, <<105, 774>>>>, <<302, <<73, 808>>>>,
       <<303, <<105, 808>>>>, <<304, <<73, 775>>>>, <<308, <<74, 770>>>>, <<309, <<106, 770>>>>,
       <<310, <<75, 807>>>>, <<311, <<107, 807>>>>, <<313, <<76, 769>>>>, <<314, <<108, 769>>>>,
       <<315, <<76, 807>>>>, <<316, <<108, 807>>>>, <<317, <<76, 780>>>>, <<318, <<108, 780>>>>,
       <<323, <<78, 769>>>>, <<324, <<110, 769>>>>, <<325, <<78, 807>>>>, <<326, <<110, 807>>>>,
       <<327, <<78, 780>>>>, <<328, <<110, 780>>>>, <<332, <<79, 772>>>>, <<333, <<111, 772>>>>,
       <<334, <<79, 774>>>>, <<335, <<111, 774>>>>, <<336, <<79, 779>>>>, <<337, <<111, 779>>>>,
       <<340, <<82, 769>>>>, <<341, <<114, 769>>>>, <<342, <<82, 807>>>>, <<343, <<114, 807>>>>,
       <<344, <<82, 780>>>>, <<345, <<114, 780>>>>, <<346, <<83, 769>>>>, <<347, <<115, 769>>>>,
       <<348, <<83, 770>>>>, <<349, <<115, 770>>>>, <<350, <<83, 807>>>>, <<351, <<115, 807>>>>,
       <<352, <<83, 780>>>>, <<353, <<115, 780>>>>, <<354, <<84, 807>>>>, <<355, <<116, 807>>>>,
       <<356, <<84, 780>>>>, <<357, <<116, 780>>>>, <<360, <<85, 771>>>>, <<361, <<117, 771>>>>,
       <<362, <<85, 772>>>>, <<363, <<117, 772>>>>, <<364, <<85, 774>>>>, <<365, <<117, 774>>>>,
       <<366, <<85, 778>>>>, <<367, <<117, 778>>>>, <<368, <<85, 779>>>>, <<369, <<117, 779>>>>,
       <<370, <<85, 808>>>>, <<371, <<117, 808>>>>, <<372, <<87, 770>>>>, <<373, <<119, 770>>>>,
       <<374, <<89, 770>>>>, <<375, <<121, 770>>>>, <<376, <<89, 776>>>>, <<377, <<90, 769>>>>,
       <<378, <<122, 769>>>>, <<379, <<90, 775>>>>, <<380, <<122, 775>>>>, <<381, <<90, 780>>>>,
       <<382, <<122, 780>>>>, <<416, <<79, 795>>>>, <<417, <<111, 795>>>>, <<431, <<85, 795>>>>,
       <<432, <<117, 795>>>>, <<461, <<65, 780>>>>, <<462, <<97, 780>>>>, <<463, <<73, 780>>>>,
       <<464, <<105, 780>>>>, <<465, <<79, 780>>>>, <<466, <<111, 780>>>>, <<467, <<85, 780>>>>,
       <<468, <<117, 780>>>>, <<469, <<85, 776, 772>>>>, <<470, <<117, 776, 772>>>>,
       <<471, <<85, 776, 769>>>>, <<472, <<117, 776, 769>>>>, <<473, <<85, 776, 780>>>>,
       <<474, <<117, 776, 780>>>>, <<475, <<85, 776, 768>>>>, <<476, <<117, 776, 768>>>>,
       <<478, <<65, 776, 772>>>>, <<479, <<97, 776, 772>>>>, <<480, <<65, 775, 772>>>>,
       <<481, <<97, 775, 772>>>>, <<482, <<198, 772>>>>, <<483, <<230, 772>>>>,
       <<486, <<71, 780>>>>, <<487, <<103, 780>>>>, <<488, <<75, 780>>>>, <<489, <<107, 780>>>>,
       <<490, <<79, 808>>>>, <<491, <<111, 808>>>>, <<492, <<79, 808, 772>>>>,
       <<493, <<111, 808, 772>>>>, <<494, <<439, 780>>>>, <<495, <<658, 780>>>>,
       <<496, <<106, 780>>>>, <<500, <<71, 769>>>>, <<501, <<103, 769>>>>, <<504, <<78, 768>>>>,
       <<505, <<110, 768>>>>, <<506, <<65, 778, 769>>>>, <<507, <<97, 778, 769>>>>,
       <<508, <<198, 769>>>>, <<509, <<230, 769>>>>, <<510, <<216, 769>>>>, <<511, <<248, 769>>>>,
       <<512, <<65, 783>>>>, <<513, <<97, 783>>>>, <<514, <<65, 785>>>>, <<515, <<97, 785>>>>,
       <<516, <<69, 783>>>>, <<517, <<101, 783>>>>, <<518, <<69, 785>>>>, <<519, <<101, 785>>>>,
       <<520, <<73, 783>>>>, <<521, <<105, 783>>>>, <<522, <<73, 785>>>>, <<523, <<105, 785>>>>,
       <<524, <<79, 783>>>>, <<525, <<111, 783>>>>, <<526, <<79, 785>>>>, <<527, <<111, 785>>>>,
       <<528, <<82, 783>>>>, <<529, <<114, 783>>>>, <<530, <<82, 785>>>>, <<531, <<114, 785>>>>,
       <<532, <<85, 783>>>>, <<533, <<117, 783>>>>, <<534, <<85, 785>>>>, <<535, <<117, 785>>>>,
       <<536, <<83, 806>>>>, <<537, <<115, 806>>>>, <<538, <<84, 806>>>>, <<539, <<116, 806>>>>,
       <<542, <<72, 780>>>>, <<543, <<104, 780>>>>, <<550, <<65, 775>>>>, <<551, <<97, 775>>>>,
       <<552, <<69, 807>>>>, <<553, <<101, 807>>>>, <<554, <<79, 776, 772>>>>,
       <<555, <<111, 776, 772>>>>, <<556, <<79, 771, 772>>>>, <<557, <<111, 771, 772>>>>,
       <<558, <<79, 775>>>>, <<559, <<111, 775>>>>, <<560, <<79, 775, 772>>>>,
       <<561, <<111, 775, 772>>>>, <<562, <<89, 772>>>>, <<563, <<121, 772>>>>, <<832, <<768>>>>,
       <<833, <<769>>>>, <<835, <<787>>>>, <<836, <<776, 769>>>>, <<884, <<697>>>>,
       <<894, <<59>>>>, <<901, <<168, 769>>>>, <<902, <<913, 769>>>>, <<903, <<183>>>>,
       <<904, <<917, 769>>>>, <<905, <<919, 769>>>>, <<906, <<921, 769>>>>, <<908, <<927, 769>>>>,
       <<910, <<933, 769>>>>, <<911, <<937, 769>>>>, <<912, <<953, 776, 769>>>>,
       <<938, <<921, 776>>>>, <<939, <<933, 776>>>>, <<940, <<945, 769>>>>, <<941, <<949, 769>>>>,
       <<942, <<951, 769>>>>, <<943, <<953, 769>>>>, <<944, <<965, 776, 769>>>>,
       <<970, <<953, 776>>>>, <<971, <<965, 776>>>>, <<972, <<959, 769>>>>, <<973, <<965, 769>>>>,
       <<974, <<969, 769>>>>, <<979, <<978, 769>>>>, <<980, <<978, 776>>>>,
       <<1024, <<1045, 768>>>>, <<1025, <<1045, 776>>>>, <<1027, <<1043, 769>>>>,
       <<1031, <<1030, 776>>>>, <<1036, <<1050, 769>>>>, <<1037, <<1048, 768>>>>,
       <<1038, <<1059, 774>>>>, <<1049, <<1048, 774>>>>, <<1081, <<1080, 774>>>>,
       <<1104, <<1077, 768>>>>, <<1105, <<1077, 776>>>>, <<1107, <<1075, 769>>>>,
       <<1111, <<1110, 776>>>>, <<1116, <<1082, 769>>>>, <<1117, <<1080, 768>>>>,
       <<1118, <<1091, 774>>>>, <<1142, <<1140, 783>>>>, <<1143, <<1141, 783>>>>,
       <<1217, <<1046, 774>>>>, <<1218, <<1078, 774>>>>, <<1232, <<1040, 774>>>>,
       <<1233, <<1072, 774>>>>, <<1234, <<1040, 776>>>>, <<1235, <<1072, 776>>>>,
       <<1238, <<1045, 774>>>>, <<1239, <<1077, 774>>>>, <<1242, <<1240, 776>>>>,
       <<1243, <<1241, 776>>>>, <<1244, <<1046, 776>>>>, <<1245, <<1078, 776>>>>,
       <<1246, <<1047, 776>>>>, <<1247, <<1079, 776>>>>, <<1250, <<1048, 772>>>>,
       <<1251, <<1080, 772>>>>, <<1252, <<1048, 776>>>>, <<1253, <<1080, 776>>>>,
       <<1254, <<1054, 776>>>>, <<1255, <<1086, 776>>>>, <<1258, <<1256, 776>>>>,
       <<1259, <<1257, 776>>>>, <<1260, <<1069, 776>>>>, <<1261, <<1101, 776>>>>,
       <<1262, <<1059, 772>>>>, <<1263, <<1091, 772>>>>, <<1264, <<1059, 776>>>>,
       <<1265, <<1091, 776>>>>, <<1266, <<1059, 779>>>>, <<1267, <<1091, 779>>>>,
       <<1268, <<1063, 776>>>>, <<1269, <<1095, 776>>>>, <<1272, <<1067, 776>>>>,
       <<1273, <<1099, 776>>>>, <<1570, <<1575, 1619>>>>, <<1571, <<1575, 1620>>>>,
       <<1572, <<1608, 1620>>>>, <<1573, <<1575, 1621>>>>, <<1574, <<1610, 1620>>>>,
       <<1728, <<1749, 1620>>>>, <<1730, <<1729, 1620>>>>, <<1747, <<1746, 1620>>>>,
       <<2345, <<2344, 2364>>>>, <<2353, <<2352, 2364>>>>, <<2356, <<2355, 2364>>>>,
       <<2392, <<2325, 2364>>>>, <<2393, <<2326, 2364>>>>, <<2394, <<2327, 2364>>>>,
       <<2395, <<2332, 2364>>>>, <<2396, <<2337, 2364>>>>, <<2397, <<2338, 2364>>>>,
       <<2398, <<2347, 2364>>>>, <<2399, <<2351, 2364>>>>, <<2507, <<2503, 2494>>>>,
       <<2508, <<2503, 2519>>>>, <<2524, <<2465, 2492>>>>, <<2525, <<2466, 2492>>>>,
       <<2527, <<2479, 2492>>>>, <<2611, <<2610, 2620>>>>, <<2614, <<2616, 2620>>>>,
       <<2649, <<2582, 2620>>>>, <<2650, <<2583, 2620>>>>, <<2651, <<2588, 2620>>>>,
       <<2654, <<2603, 2620>>>>, <<2888, <<2887, 2902>>>>, <<2891, <<2887, 2878>>>>,
       <<2892, <<2887, 2903>>>>, <<2908, <<2849, 2876>>>>, <<2909, <<2850, 2876>>>>,
       <<2964, <<2962, 3031>>>>, <<3018, <<3014, 3006>>>>, <<3019, <<3015, 3006>>>>,
       <<3020, <<3014, 3031>>>>, <<3144, <<3142, 3158>>>>, <<3264, <<3263, 3285>>>>,
       <<3271, <<3270, 3285>>>>, <<3272, <<3270, 3286>>>>, <<3274, <<3270, 3266>>>>,
       <<3275, <<3270, 3266, 3285>>>>, <<3402, <<3398, 3390>>>>, <<3403, <<3399, 3390>>>>,
       <<3404, <<3398, 3415>>>>, <<3546, <<3545, 3530>>>>, <<3548, <<3545, 3535>>>>,
       <<3549, <<3545, 3535, 3530>>>>, <<3550, <<3545, 3551>>>>, <<3907, <<3906, 4023>>>>,
       <<3917, <<3916, 4023>>>>, <<3922, <<3921, 4023>>>>, <<3927, <<3926, 4023>>>>,
       <<3932, <<3931, 4023>>>>, <<3945, <<3904, 4021>>>>, <<3955, <<3953, 3954>>>>,
       <<3957, <<3953, 3956>>>>, <<3958, <<4018, 3968>>>>, <<3960, <<4019, 3968>>>>,
       <<3969, <<3953, 3968>>>>, <<3987, <<3986, 4023>>>>, <<3997, <<3996, 4023>>>>,
       <<4002, <<4001, 4023>>>>, <<4007, <<4006, 4023>>>>, <<4012, <<4011, 4023>>>>,
       <<4025, <<3984, 4021>>>>, <<4134, <<4133, 4142>>>>, <<6918, <<6917, 6965>>>>,
       <<6920, <<6919, 6965>>>>, <<6922, <<6921, 6965>>>>, <<6924, <<6923, 6965>>>>,
       <<6926, <<6925, 6965>>>>, <<6930, <<6929, 6965>>>>, <<6971, <<6970, 6965>>>>,
       <<6973, <<6972, 6965>>>>, <<6976, <<6974, 6965>>>>, <<6977, <<6975, 6965>>>>,
       <<6979, <<6978, 6965>>>>, <<7680, <<65, 805>>>>, <<7681, <<97, 805>>>>,
       <<7682, <<66, 775>>>>, <<7683, <<98, 775>>>>, <<7684, <<66, 803>>>>, <<7685, <<98, 803>>>>,
       <<7686, <<66, 817>>>>, <<7687, <<98, 817>>>>, <<7688, <<67, 807, 769>>>>,
       <<7689, <<99, 807, 769>>>>, <<7690, <<68, 775>>>>, <<7691, <<100, 775>>>>,
       <<7692, <<68, 803>>>>, <<7693, <<100, 803>>>>, <<7694, <<68, 817>>>>,
       <<7695, <<100, 817>>>>, <<7696, <<68, 807>>>>, <<7697, <<100, 807>>>>,
       <<7698, <<68, 813>>>>, <<7699, <<100, 813>>>>, <<7700, <<69, 772, 768>>>>,
       <<7701, <<101, 772, 768>>>>, <<7702, <<69, 772, 769>>>>, <<7703, <<101, 772, 769>>>>,
       <<7704, <<69, 813>>>>, <<7705, <<101, 813>>>>, <<7706, <<69, 816>>>>,
       <<7707, <<101, 816>>>>, <<7708, <<69, 807, 774>>>>, <<7709, <<101, 807, 774>>>>,
       <<7710, <<70, 775>>>>, <<7711, <<102, 775>>>>, <<7712, <<71, 772>>>>,
       <<7713, <<103, 772>>>>, <<7714, <<72, 775>>>>, <<7715, <<104, 775>>>>,
       <<7716, <<72, 803>>>>, <<7717, <<104, 803>>>>, <<7718, <<72, 776>>>>,
       <<7719, <<104, 776>>>>, <<7720, <<72, 807>>>>, <<7721, <<104, 807>>>>,
       <<7722, <<72, 814>>>>, <<7723, <<104, 814>>>>, <<7724, <<73, 816>>>>,
       <<7725, <<105, 816>>>>, <<7726, <<73, 776, 769>>>>, <<7727, <<105, 776, 769>>>>,
       <<7728, <<75, 769>>>>, <<7729, <<107, 769>>>>, <<7730, <<75, 803>>>>,
       <<7731, <<107, 803>>>>, <<7732, <<75, 817>>>>, <<7733, <<107, 817>>>>,
       <<7734, <<76, 803>>>>, <<7735, <<108, 803>>>>, <<7736, <<76, 803, 772>>>>,
       <<7737, <<108, 803, 772>>>>, <<7738, <<76, 817>>>>, <<7739, <<108, 817>>>>,
       <<7740, <<76, 813>>>>, <<7741, <<108, 813>>>>, <<7742, <<77, 769>>>>,
       <<7743, <<109, 769>>>>, <<7744, <<77, 775>>>>, <<7745, <<109, 775>>>>,
       <<7746, <<77, 803>>>>, <<7747, <<109, 803>>>>, <<7748, <<78, 775>>>>,
       <<7749, <<110, 775>>>>, <<7750, <<78, 803>>>>, <<7751, <<110, 803>>>>,
       <<7752, <<78, 817>>>>, <<7753, <<110, 817>>>>, <<7754, <<78, 813>>>>,
       <<7755, <<110, 813>>>>, <<7756, <<79, 771, 769>>>>, <<7757, <<111, 771, 769>>>>,
       <<7758, <<79, 771, 776>>>>, <<7759, <<111, 771, 776>>>>, <<7760, <<79, 772, 768>>>>,
       <<7761, <<111, 772, 768>>>>, <<7762, <<79, 772, 769>>>>, <<7763, <<111, 772, 769>>>>,
       <<7764, <<80, 769>>>>, <<7765, <<112, 769>>>>, <<7766, <<80, 775>>>>,
       <<7767, <<112, 775>>>>, <<7768, <<82, 775>>>>, <<7769, <<114, 775>>>>,
       <<7770, <<82, 803>>>>, <<7771, <<114, 803>>>>, <<7772, <<82, 803, 772>>>>,
       <<7773, <<114, 803, 772>>>>, <<7774, <<82, 817>>>>, <<7775, <<114, 817>>>>,
       <<7776, <<83, 775>>>>, <<7777, <<115, 775>>>>, <<7778, <<83, 803>>>>,
       <<7779, <<115, 803>>>>, <<7780, <<83, 769, 775>>>>, <<7781, <<115, 769, 775>>>>,
       <<7782, <<83, 780, 775>>>>, <<7783, <<115, 780, 775>>>>, <<7784, <<83, 803, 775>>>>,
       <<7785, <<115, 803, 775>>>>, <<7786, <<84, 775>>>>, <<7787, <<116, 775>>>>,
       <<7788, <<84, 803>>>>, <<7789, <<116, 803>>>>, <<7790, <<84, 817>>>>,
       <<7791, <<116, 817>>>>, <<7792, <<84, 813>>>>, <<7793, <<116, 813>>>>,
       <<7794, <<85, 804>>>>, <<7795, <<117, 804>>>>, <<7796, <<85, 816>>>>,
       <<7797, <<117, 816>>>>, <<7798, <<85, 813>>>>, <<7799, <<117, 813>>>>,
       <<7800, <<85, 771, 769>>>>, <<7801, <<117, 771, 769>>>>, <<7802, <<85, 772, 776>>>>,
       <<7803, <<117, 772, 776>>>>, <<7804, <<86, 771>>>>, <<7805, <<118, 771>>>>,
       <<7806, <<86, 803>>>>, <<7807, <<118, 803>>>>, <<7808, <<87, 768>>>>,
       <<7809, <<119, 768>>>>, <<7810, <<87, 769>>>>, <<7811, <<119, 769>>>>,
       <<7812, <<87, 776>>>>, <<7813, <<119, 776>>>>, <<7814, <<87, 775>>>>,
       <<7815, <<119, 775>>>>, <<7816, <<87, 803>>>>, <<7817, <<119, 803>>>>,
       <<7818, <<88, 775>>>>, <<7819, <<120, 775>>>>, <<7820, <<88, 776>>>>,
       <<7821, <<120, 776>>>>, <<7822, <<89, 775>>>>, <<7823, <<121, 775>>>>,
       <<7824, <<90, 770>>>>, <<7825, <<122, 770>>>>, <<7826, <<90, 803>>>>,
       <<7827, <<122, 803>>>>, <<7828, <<90, 817>>>>, <<7829, <<122, 817>>>>,
       <<7830, <<104, 817>>>>, <<7831, <<116, 776>>>>, <<7832, <<119, 778>>>>,
       <<7833, <<121, 778>>>>, <<7835, <<383, 775>>>>, <<7840, <<65, 803>>>>,
       <<7841, <<97, 803>>>>, <<7842, <<65, 777>>>>, <<7843, <<97, 777>>>>,
       <<7844, <<65, 770, 769>>>>, <<7845, <<97, 770, 769>>>>, <<7846, <<65, 770, 768>>>>,
       <<7847, <<97, 770, 768>>>>, <<7848, <<65, 770, 777>>>>, <<7849, <<97, 770, 777>>>>,
       <<7850, <<65, 770, 771>>>>, <<7851, <<97, 770, 771>>>>, <<7852, <<65, 803, 770>>>>,
       <<7853, <<97, 803, 770>>>>, <<7854, <<65, 774, 769>>>>, <<7855, <<97, 774, 769>>>>,
       <<7856, <<65, 774, 768>>>>, <<7857, <<97, 774, 768>>>>, <<7858, <<65, 774, 777>>>>,
       <<7859, <<97, 774, 777>>>>, <<7860, <<65, 774, 771>>>>, <<7861, <<97, 774, 771>>>>,
       <<7862, <<65, 803, 774>>>>, <<7863, <<97, 803, 774>>>>, <<7864, <<69, 803>>>>,
       <<7865, <<101, 803>>>>, <<7866, <<69, 777>>>>, <<7867, <<101, 777>>>>,
       <<7868, <<69, 771>>>>, <<7869, <<101, 771>>>>, <<7870, <<69, 770, 769>>>>,
       <<7871, <<101, 770, 769>>>>, <<7872, <<69, 770, 768>>>>, <<7873, <<101, 770, 768>>>>,
       <<7874, <<69, 770, 777>>>>, <<7875, <<101, 770, 777>>>>, <<7876, <<69, 770, 771>>>>,
       <<7877, <<101, 770, 771>>>>, <<7878, <<69, 803, 770>>>>, <<7879, <<101, 803, 770>>>>,
       <<7880, <<73, 777>>>>, <<7881, <<105, 777>>>>, <<7882, <<73, 803>>>>,
       <<7883, <<105, 803>>>>, <<7884, <<79, 803>>>>, <<7885, <<111, 803>>>>,
       <<7886, <<79, 777>>>>, <<7887, <<111, 777>>>>, <<7888, <<79, 770, 769>>>>,
       <<7889, <<111, 770, 769>>>>, <<7890, <<79, 770, 768>>>>, <<7891, <<111, 770, 768>>>>,
       <<7892, <<79, 770, 777>>>>, <<7893, <<111, 770, 777>>>>, <<7894, <<79, 770, 771>>>>,
       <<7895, <<111, 770, 771>>>>, <<7896, <<79, 803, 770>>>>, <<7897, <<111, 803, 770>>>>,
       <<7898, <<79, 795, 769>>>>, <<7899, <<111, 795, 769>>>>, <<7900, <<79, 795, 768>>>>,
       <<7901, <<111, 795, 768>>>>, <<7902, <<79, 795, 777>>>>, <<7903, <<111, 795, 777>>>>,
       <<7904, <<79, 795, 771>>>>, <<7905, <<111, 795, 771>>>>, <<7906, <<79, 795, 803>>>>,
       <<7907, <<111, 795, 803>>>>, <<7908, <<85, 803>>>>, <<7909, <<117, 803>>>>,
       <<7910, <<85, 777>>>>, <<7911, <<117, 777>>>>, <<7912, <<85, 795, 769>>>>,
       <<7913, <<117, 795, 769>>>>, <<7914, <<85, 795, 768>>>>, <<7915, <<117, 795, 768>>>>,
       <<7916, <<85, 795, 777>>>>, <<7917, <<117, 795, 777>>>>, <<7918, <<85, 795, 771>>>>,
       <<7919, <<117, 795, 771>>>>, <<7920, <<85, 795, 803>>>>, <<7921, <<117, 795, 803>>>>,
       <<7922, <<89, 768>>>>, <<7923, <<121, 768>>>>, <<7924, <<89, 803>>>>,
       <<7925, <<121, 803>>>>, <<7926, <<89, 777>>>>, <<7927, <<121, 777>>>>,
       <<7928, <<89, 771>>>>, <<7929, <<121, 771>>>>, <<7936, <<945, 787>>>>,
       <<7937, <<945, 788>>>>, <<7938, <<945, 787, 768>>>>, <<7939, <<945, 788, 768>>>>,
       <<7940, <<945, 787, 769>>>>, <<7941, <<945, 788, 769>>>>, <<7942, <<945, 787, 834>>>>,
       <<7943, <<945, 788, 834>>>>, <<7944, <<913, 787>>>>, <<7945, <<913, 788>>>>,
       <<7946, <<913, 787, 768>>>>, <<7947, <<913, 788, 768>>>>, <<7948, <<913, 787, 769>>>>,
       <<7949, <<913, 788, 769>>>>, <<7950, <<913, 787, 834>>>>, <<7951, <<913, 788, 834>>>>,
       <<7952, <<949, 787>>>>, <<7953, <<949, 788>>>>, <<7954, <<949, 787, 768>>>>,
       <<7955, <<949, 788, 768>>>>, <<7956, <<949, 787, 769>>>>, <<7957, <<949, 788, 769>>>>,
       <<7960, <<917, 787>>>>, <<7961, <<917, 788>>>>, <<7962, <<917, 787, 768>>>>,
       <<7963, <<917, 788, 768>>>>, <<7964, <<917, 787, 769>>>>, <<7965, <<917, 788, 769>>>>,
       <<7968, <<951, 787>>>>, <<7969, <<951, 788>>>>, <<7970, <<951, 787, 768>>>>,
       <<7971, <<951, 788, 768>>>>, <<7972, <<951, 787, 769>>>>, <<7973, <<951, 788, 769>>>>,
       <<7974, <<951, 787, 834>>>>, <<7975, <<951, 788, 834>>>>, <<7976, <<919, 787>>>>,
       <<7977, <<919, 788>>>>, <<7978, <<919, 787, 768>>>>, <<7979, <<919, 788, 768>>>>,
       <<7980, <<919, 787, 769>>>>, <<7981, <<919, 788, 769>>>>, <<7982, <<919, 787, 834>>>>,
       <<7983, <<919, 788, 834>>>>, <<7984, <<953, 787>>>>, <<7985, <<953, 788>>>>,
       <<7986, <<953, 787, 768>>>>, <<7987, <<953, 788, 768>>>>, <<7988, <<953, 787, 769>>>>,
       <<7989, <<953, 788, 769>>>>, <<7990, <<953, 787, 834>>>>, <<7991, <<953, 788, 834>>>>,
       <<7992, <<921, 787>>>>, <<7993, <<921, 788>>>>, <<7994, <<921, 787, 768>>>>,
       <<7995, <<921, 788, 768>>>>, <<7996, <<921, 787, 769>>>>, <<7997, <<921, 788, 769>>>>,
       <<7998, <<921, 787, 834>>>>, <<7999, <<921, 788, 834>>>>, <<8000, <<959, 787>>>>,
       <<8001, <<959, 788>>>>, <<8002, <<959, 787, 768>>>>, <<8003, <<959, 788, 768>>>>,
       <<8004, <<959, 787, 769>>>>, <<8005, <<959, 788, 769>>>>, <<8008, <<927, 787>>>>,
       <<8009, <<927, 788>>>>, <<8010, <<927, 787, 768>>>>, <<8011, <<927, 788, 768>>>>,
       <<8012, <<927, 787, 769>>>>, <<8013, <<927, 788, 769>>>>, <<8016, <<965, 787>>>>,
       <<8017, <<965, 788>>>>, <<8018, <<965, 787, 768>>>>, <<8019, <<965, 788, 768>>>>,
       <<8020, <<965, 787, 769>>>>, <<8021, <<965, 788, 769>>>>, <<8022, <<965, 787, 834>>>>,
       <<8023, <<965, 788, 834>>>>, <<8025, <<933, 788>>>>, <<8027, <<933, 788, 768>>>>,
       <<8029, <<933, 788, 769>>>>, <<8031, <<933, 788, 834>>>>, <<8032, <<969, 787>>>>,
       <<8033, <<969, 788>>>>, <<8034, <<969, 787, 768>>>>, <<8035, <<969, 788, 768>>>>,
       <<8036, <<969, 787, 769>>>>, <<8037, <<969, 788, 769>>>>, <<8038, <<969, 787, 834>>>>,
       <<8039, <<969, 788, 834>>>>, <<8040, <<937, 787>>>>, <<8041, <<937, 788>>>>,
       <<8042, <<937, 787, 768>>>>, <<8043, <<937, 788, 768>>>>, <<8044, <<937, 787, 769>>>>,
       <<8045, <<937, 788, 769>>>>, <<8046, <<937, 787, 834>>>>, <<8047, <<937, 788, 834>>>>,
       <<8048, <<945, 768>>>>, <<8049, <<945, 769>>>>, <<8050, <<949, 768>>>>,
       <<8051, <<949, 769>>>>, <<8052, <<951, 768>>>>, <<8053, <<951, 769>>>>,
       <<8054, <<953, 768>>>>, <<8055, <<953, 769>>>>, <<8056, <<959, 768>>>>,
       <<8057, <<959, 769>>>>, <<8058, <<965, 768>>>>, <<8059, <<965, 769>>>>,
       <<8060, <<969, 768>>>>, <<8061, <<969, 769>>>>, <<8064, <<945, 787, 837>>>>,
       <<8065, <<945, 788, 837>>>>, <<8066, <<945, 787, 768, 837>>>>,
       <<8067, <<945, 788, 768, 837>>>>, <<8068, <<945, 787, 769, 837>>>>,
       <<8069, <<945, 788, 769, 837>>>>, <<8070, <<945, 787, 834, 837>>>>,
       <<8071, <<945, 788, 834, 837>>>>, <<8072, <<913, 787, 837>>>>, <<8073, <<913, 788, 837>>>>,
       <<8074, <<913, 787, 768, 837>>>>, <<8075, <<913, 788, 768, 837>>>>,
       <<8076, <<913, 787, 769, 837>>>>, <<8077, <<913, 788, 769, 837>>>>,
       <<8078, <<913, 787, 834, 837>>>>, <<8079, <<913, 788, 834, 837>>>>,
       <<8080, <<951, 787, 837>>>>, <<8081, <<951, 788, 837>>>>, <<8082, <<951, 787, 768, 837>>>>,
       <<8083, <<951, 788, 768, 837>>>>, <<8084, <<951, 787, 769, 837>>>>,
       <<8085, <<951, 788, 769, 837>>>>, <<8086, <<951, 787, 834, 837>>>>,
       <<8087, <<951, 788, 834, 837>>>>, <<8088, <<919, 787, 837>>>>, <<8089, <<919, 788, 837>>>>,
       <<8090, <<919, 787, 768, 837>>>>, <<8091, <<919, 788, 768, 837>>>>,
       <<8092, <<919, 787, 769, 837>>>>, <<8093, <<919, 788, 769, 837>>>>,
       <<8094, <<919, 787, 834, 837>>>>, <<8095, <<919, 788, 834, 837>>>>,
       <<8096, <<969, 787, 837>>>>, <<8097, <<969, 788, 837>>>>, <<8098, <<969, 787, 768, 837>>>>,
       <<8099, <<969, 788, 768, 837>>>>, <<8100, <<969, 787, 769, 837>>>>,
       <<8101, <<969, 788, 769, 837>>>>, <<8102, <<969, 787, 834, 837>>>>,
       <<8103, <<969, 788, 834, 837>>>>, <<8104, <<937, 787, 837>>>>, <<8105, <<937, 788, 837>>>>,
       <<8106, <<937, 787, 768, 837>>>>, <<8107, <<937, 788, 768, 837>>>>,
       <<8108, <<937, 787, 769, 837>>>>, <<8109, <<937, 788, 769, 837>>>>,
       <<8110, <<937, 787, 834, 837>>>>, <<8111, <<937, 788, 834, 837>>>>, <<8112, <<945, 774>>>>,
       <<8113, <<945, 772>>>>, <<8114, <<945, 768, 837>>>>, <<8115, <<945, 837>>>>,
       <<8116, <<945, 769, 837>>>>, <<8118, <<945, 834>>>>, <<8119, <<945, 834, 837>>>>,
       <<8120, <<913, 774>>>>, <<8121, <<913, 772>>>>, <<8122, <<913, 768>>>>,
       <<8123, <<913, 769>>>>, <<8124, <<913, 837>>>>, <<8126, <<953>>>>, <<8129, <<168, 834>>>>,
       <<8130, <<951, 768, 837>>>>, <<8131, <<951, 837>>>>, <<8132, <<951, 769, 837>>>>,
       <<8134, <<951, 834>>>>, <<8135, <<951, 834, 837>>>>, <<8136, <<917, 768>>>>,
       <<8137, <<917, 769>>>>, <<8138, <<919, 768>>>>, <<8139, <<919, 769>>>>,
       <<8140, <<919, 837>>>>, <<8141, <<8127, 768>>>>, <<8142, <<8127, 769>>>>,
       <<8143, <<8127, 834>>>>, <<8144, <<953, 774>>>>, <<8145, <<953, 772>>>>,
       <<8146, <<953, 776, 768>>>>, <<8147, <<953, 776, 769>>>>, <<8150, <<953, 834>>>>,
       <<8151, <<953, 776, 834>>>>, <<8152, <<921, 774>>>>, <<8153, <<921, 772>>>>,
       <<8154, <<921, 768>>>>, <<8155, <<921, 769>>>>, <<8157, <<8190, 768>>>>,
       <<8158, <<8190, 769>>>>, <<8159, <<8190, 834>>>>, <<8160, <<965, 774>>>>,
       <<8161, <<965, 772>>>>, <<8162, <<965, 776, 768>>>>, <<8163, <<965, 776, 769>>>>,
       <<8164, <<961, 787>>>>, <<8165, <<961, 788>>>>, <<8166, <<965, 834>>>>,
       <<8167, <<965, 776, 834>>>>, <<8168, <<933, 774>>>>, <<8169, <<933, 772>>>>,
       <<8170, <<933, 768>>>>, <<8171, <<933, 769>>>>, <<8172, <<929, 788>>>>,
       <<8173, <<168, 768>>>>, <<8174, <<168, 769>>>>, <<8175, <<96>>>>,
       <<8178, <<969, 768, 837>>>>, <<8179, <<969, 837>>>>, <<8180, <<969, 769, 837>>>>,
       <<8182, <<969, 834>>>>, <<8183, <<969, 834, 837>>>>, <<8184, <<927, 768>>>>,
       <<8185, <<927, 769>>>>, <<8186, <<937, 768>>>>, <<8187, <<937, 769>>>>,
       <<8188, <<937, 837>>>>, <<8189, <<180>>>>, <<8192, <<8194>>>>, <<8193, <<8195>>>>,
       <<8486, <<937>>>>, <<8490, <<75>>>>, <<8491, <<65, 778>>>>, <<8602, <<8592, 824>>>>,
       <<8603, <<8594, 824>>>>, <<8622, <<8596, 824>>>>, <<8653, <<8656, 824>>>>,
       <<8654, <<8660, 824>>>>, <<8655, <<8658, 824>>>>, <<8708, <<8707, 824>>>>,
       <<8713, <<8712, 824>>>>, <<8716, <<8715, 824>>>>, <<8740, <<8739, 824>>>>,
       <<8742, <<8741, 824>>>>, <<8769, <<8764, 824>>>>, <<8772, <<8771, 824>>>>,
       <<8775, <<8773, 824>>>>, <<8777, <<8776, 824>>>>, <<8800, <<61, 824>>>>,
       <<8802, <<8801, 824>>>>, <<8813, <<8781, 824>>>>, <<8814, <<60, 824>>>>,
       <<8815, <<62, 824>>>>, <<8816, <<8804, 824>>>>, <<8817, <<8805, 824>>>>,
       <<8820, <<8818, 824>>>>, <<8821, <<8819, 824>>>>, <<8824, <<8822, 824>>>>,
       <<8825, <<8823, 824>>>>, <<8832, <<8826, 824>>>>, <<8833, <<8827, 824>>>>,
       <<8836, <<8834, 824>>>>, <<8837, <<8835, 824>>>>, <<8840, <<8838, 824>>>>,
       <<8841, <<8839, 824>>>>, <<8876, <<8866, 824>>>>, <<8877, <<8872, 824>>>>,
       <<8878, <<8873, 824>>>>, <<8879, <<8875, 824>>>>, <<8928, <<8828, 824>>>>,
       <<8929, <<8829, 824>>>>, <<8930, <<8849, 824>>>>, <<8931, <<8850, 824>>>>,
       <<8938, <<8882, 824>>>>, <<8939, <<8883, 824>>>>, <<8940, <<8884, 824>>>>,
       <<8941, <<8885, 824>>>>, <<9001, <<12296>>>>, <<9002, <<12297>>>>,
       <<10972, <<10973, 824>>>>, <<12364, <<12363, 12441>>>>, <<12366, <<12365, 12441>>>>,
       <<12368, <<12367, 12441>>>>, <<12370, <<12369, 12441>>>>, <<12372, <<12371, 12441>>>>,
       <<12374, <<12373, 12441>>>>, <<12376, <<12375, 12441>>>>, <<12378, <<12377, 12441>>>>,
       <<12380, <<12379, 12441>>>>, <<12382, <<12381, 12441>>>>, <<12384, <<12383, 12441>>>>,
       <<12386, <<12385, 12441>>>>, <<12389, <<12388, 12441>>>>, <<12391, <<12390, 12441>>>>,
       <<12393, <<12392, 12441>>>>, <<12400, <<12399, 12441>>>>, <<12401, <<12399, 12442>>>>,
       <<12403, <<12402, 12441>>>>, <<12404, <<12402, 12442>>>>, <<12406, <<12405, 12441>>>>,
       <<12407, <<12405, 12442>>>>, <<12409, <<12408, 12441>>>>, <<12410, <<12408, 12442>>>>,
       <<12412, <<12411, 12441>>>>, <<12413, <<12411, 12442>>>>, <<12436, <<12358, 12441>>>>,
       <<12446, <<12445, 12441>>>>, <<12460, <<12459, 12441>>>>, <<12462, <<12461, 12441>>>>,
       <<12464, <<12463, 12441>>>>, <<12466, <<12465, 12441>>>>, <<12468, <<12467, 12441>>>>,
       <<12470, <<12469, 12441>>>>, <<12472, <<12471, 12441>>>>, <<12474, <<12473, 12441>>>>,
       <<12476, <<12475, 12441>>>>, <<12478, <<12477, 12441>>>>, <<12480, <<12479, 12441>>>>,
       <<12482, <<12481, 12441>>>>, <<12485, <<12484, 12441>>>>, <<12487, <<12486, 12441>>>>,
       <<12489, <<12488, 12441>>>>, <<12496, <<12495, 12441>>>>, <<12497, <<12495, 12442>>>>,
       <<12499, <<12498, 12441>>>>, <<12500, <<12498, 12442>>>>, <<12502, <<12501, 12441>>>>,
       <<12503, <<12501, 12442>>>>, <<12505, <<12504, 12441>>>>, <<12506, <<12504, 12442>>>>,
       <<12508, <<12507, 12441>>>>, <<12509, <<12507, 12442>>>>, <<12532, <<12454, 12441>>>>,
       <<12535, <<12527, 12441>>>>, <<12536, <<12528, 12441>>>>, <<12537, <<12529, 12441>>>>,
       <<12538, <<12530, 12441>>>>, <<12542, <<12541, 12441>>>>, <<63744, <<35912>>>>,
       <<63745, <<26356>>>>, <<63746, <<36554>>>>, <<63747, <<36040>>>>, <<63748, <<28369>>>>,
       <<63749, <<20018>>>>, <<63750, <<21477>>>>, <<63751, <<40860>>>>, <<63752, <<40860>>>>,
       <<63753, <<22865>>>>, <<63754, <<37329>>>>, <<63755, <<21895>>>>, <<63756, <<22856>>>>,
       <<63757, <<25078>>>>, <<63758, <<30313>>>>, <<63759, <<32645>>>>, <<63760, <<34367>>>>,
       <<63761, <<34746>>>>, <<63762, <<35064>>>>, <<63763, <<37007>>>>, <<63764, <<27138>>>>,
       <<63765, <<27931>>>>, <<63766, <<28889>>>>, <<63767, <<29662>>>>, <<63768, <<33853>>>>,
       <<63769, <<37226>>>>, <<63770, <<39409>>>>, <<63771, <<20098>>>>, <<63772, <<21365>>>>,
       <<63773, <<27396>>>>, <<63774, <<29211>>>>, <<63775, <<34349>>>>, <<63776, <<40478>>>>,
       <<63777, <<23888>>>>, <<63778, <<28651>>>>, <<63779, <<34253>>>>, <<63780, <<35172>>>>,
       <<63781, <<25289>>>>, <<63782, <<33240>>>>, <<63783, <<34847>>>>, <<63784, <<24266>>>>,
       <<63785, <<26391>>>>, <<63786, <<28010>>>>, <<63787, <<29436>>>>, <<63788, <<37070>>>>,
       <<63789, <<20358>>>>, <<63790, <<20919>>>>, <<63791, <<21214>>>>, <<63792, <<25796>>>>,
       <<63793, <<27347>>>>, <<63794, <<29200>>>>, <<63795, <<30439>>>>, <<63796, <<32769>>>>,
       <<63797, <<34310>>>>, <<63798, <<34396>>>>, <<63799, <<36335>>>>, <<63800, <<38706>>>>,
       <<63801, <<39791>>>>, <<63802, <<40442>>>>, <<63803, <<30860>>>>, <<63804, <<31103>>>>,
       <<63805, <<32160>>>>, <<63806, <<33737>>>>, <<63807, <<37636>>>>, <<63808, <<40575>>>>,
       <<63809, <<35542>>>>, <<63810, <<22751>>>>, <<63811, <<24324>>>>, <<63812, <<31840>>>>,
       <<63813, <<32894>>>>, <<63814, <<29282>>>>, <<63815, <<30922>>>>, <<63816, <<36034>>>>,
       <<63817, <<38647>>>>, <<63818, <<22744>>>>, <<63819, <<23650>>>>, <<63820, <<27155>>>>,
       <<63821, <<28122>>>>, <<63822, <<28431>>>>, <<63823, <<32047>>>>, <<63824, <<32311>>>>,
       <<63825, <<38475>>>>, <<63826, <<21202>>>>, <<63827, <<32907>>>>, <<63828, <<20956>>>>,
       <<63829, <<20940>>>>, <<63830, <<31260>>>>, <<63831, <<32190>>>>, <<63832, <<33777>>>>,
       <<63833, <<38517>>>>, <<63834, <<35712>>>>, <<63835, <<25295>>>>, <<63836, <<27138>>>>,
       <<63837, <<35582>>>>, <<63838, <<20025>>>>, <<63839, <<23527>>>>, <<63840, <<24594>>>>,
       <<63841, <<29575>>>>, <<63842, <<30064>>>>, <<63843, <<21271>>>>, <<63844, <<30971>>>>,
       <<63845, <<20415>>>>, <<63846, <<24489>>>>, <<63847, <<19981>>>>, <<63848, <<27852>>>>,
       <<63849, <<25976>>>>, <<63850, <<32034>>>>, <<63851, <<21443>>>>, <<63852, <<22622>>>>,
       <<63853, <<30465>>>>, <<63854, <<33865>>>>, <<63855, <<35498>>>>, <<63856, <<27578>>>>,
       <<63857, <<36784>>>>, <<63858, <<27784>>>>, <<63859, <<25342>>>>, <<63860, <<33509>>>>,
       <<63861, <<25504>>>>, <<63862, <<30053>>>>, <<63863, <<20142>>>>, <<63864, <<20841>>>>,
       <<63865, <<20937>>>>, <<63866, <<26753>>>>, <<63867, <<31975>>>>, <<63868, <<33391>>>>,
       <<63869, <<35538>>>>, <<63870, <<37327>>>>, <<63871, <<21237>>>>, <<63872, <<21570>>>>,
       <<63873, <<22899>>>>, <<63874, <<24300>>>>, <<63875, <<26053>>>>, <<63876, <<28670>>>>,
       <<63877, <<31018>>>>, <<63878, <<38317>>>>, <<63879, <<39530>>>>, <<63880, <<40599>>>>,
       <<63881, <<40654>>>>, <<63882, <<21147>>>>, <<63883, <<26310>>>>, <<63884, <<27511>>>>,
       <<63885, <<36706>>>>, <<63886, <<24180>>>>, <<63887, <<24976>>>>, <<63888, <<25088>>>>,
       <<63889, <<25754>>>>, <<63890, <<28451>>>>, <<63891, <<29001>>>>, <<63892, <<29833>>>>,
       <<63893, <<31178>>>>, <<63894, <<32244>>>>, <<63895, <<32879>>>>, <<63896, <<36646>>>>,
       <<63897, <<34030>>>>, <<63898, <<36899>>>>, <<63899, <<37706>>>>, <<63900, <<21015>>>>,
       <<63901, <<21155>>>>, <<63902, <<21693>>>>, <<63903, <<28872>>>>, <<63904, <<35010>>>>,
       <<63905, <<35498>>>>, <<63906, <<24265>>>>, <<63907, <<24565>>>>, <<63908, <<25467>>>>,
       <<63909, <<27566>>>>, <<63910, <<31806>>>>, <<63911, <<29557>>>>, <<63912, <<20196>>>>,
       <<63913, <<22265>>>>, <<63914, <<23527>>>>, <<63915, <<23994>>>>, <<63916, <<24604>>>>,
       <<63917, <<29618>>>>, <<63918, <<29801>>>>, <<63919, <<32666>>>>, <<63920, <<32838>>>>,
       <<63921, <<37428>>>>, <<63922, <<38646>>>>, <<63923, <<38728>>>>, <<63924, <<38936>>>>,
       <<63925, <<20363>>>>, <<63926, <<31150>>>>, <<63927, <<37300>>>>, <<63928, <<38584>>>>,
       <<63929, <<24801>>>>, <<63930, <<20102>>>>, <<63931, <<20698>>>>, <<63932, <<23534>>>>,
       <<63933, <<23615>>>>, <<63934, <<26009>>>>, <<63935, <<27138>>>>, <<63936, <<29134>>>>,
       <<63937, <<30274>>>>, <<63938, <<34044>>>>, <<63939, <<36988>>>>, <<63940, <<40845>>>>,
       <<63941, <<26248>>>>, <<63942, <<38446>>>>, <<63943, <<21129>>>>, <<63944, <<26491>>>>,
       <<63945, <<26611>>>>, <<63946, <<27969>>>>, <<63947, <<28316>>>>, <<63948, <<29705>>>>,
       <<63949, <<30041>>>>, <<63950, <<30827>>>>, <<63951, <<32016>>>>, <<63952, <<39006>>>>,
       <<63953, <<20845>>>>, <<63954, <<25134>>>>, <<63955, <<38520>>>>, <<63956, <<20523>>>>,
       <<63957, <<23833>>>>, <<63958, <<28138>>>>, <<63959, <<36650>>>>, <<63960, <<24459>>>>,
       <<63961, <<24900>>>>, <<63962, <<26647>>>>, <<63963, <<29575>>>>, <<63964, <<38534>>>>,
       <<63965, <<21033>>>>, <<63966, <<21519>>>>, <<63967, <<23653>>>>, <<63968, <<26131>>>>,
       <<63969, <<26446>>>>, <<63970, <<26792>>>>, <<63971, <<27877>>>>, <<63972, <<29702>>>>,
       <<63973, <<30178>>>>, <<63974, <<32633>>>>, <<63975, <<35023>>>>, <<63976, <<35041>>>>,
       <<63977, <<37324>>>>, <<63978, <<38626>>>>, <<63979, <<21311>>>>, <<63980, <<28346>>>>,
       <<63981, <<21533>>>>, <<63982, <<29136>>>>, <<63983, <<29848>>>>, <<63984, <<34298>>>>,
       <<63985, <<38563>>>>, <<63986, <<40023>>>>, <<63987, <<40607>>>>, <<63988, <<26519>>>>,
       <<63989, <<28107>>>>, <<63990, <<33256>>>>, <<63991, <<31435>>>>, <<63992, <<31520>>>>,
       <<63993, <<31890>>>>, <<63994, <<29376>>>>, <<63995, <<28825>>>>, <<63996, <<35672>>>>,
       <<63997, <<20160>>>>, <<63998, <<33590>>>>, <<63999, <<21050>>>>, <<64000, <<20999>>>>,
       <<64001, <<24230>>>>, <<64002, <<25299>>>>, <<64003, <<31958>>>>, <<64004, <<23429>>>>,
       <<64005, <<27934>>>>, <<64006, <<26292>>>>, <<64007, <<36667>>>>, <<64008, <<34892>>>>,
       <<64009, <<38477>>>>, <<64010, <<35211>>>>, <<64011, <<24275>>>>, <<64012, <<20800>>>>,
       <<64013, <<21952>>>>, <<64016, <<22618>>>>, <<64018, <<26228>>>>, <<64021, <<20958>>>>,
       <<64022, <<29482>>>>, <<64023, <<30410>>>>, <<64024, <<31036>>>>, <<64025, <<31070>>>>,
       <<64026, <<31077>>>>, <<64027, <<31119>>>>, <<64028, <<38742>>>>, <<64029, <<31934>>>>,
       <<64030, <<32701>>>>, <<64032, <<34322>>>>, <<64034, <<35576>>>>, <<64037, <<36920>>>>,
       <<64038, <<37117>>>>, <<64042, <<39151>>>>, <<64043, <<39164>>>>, <<64044, <<39208>>>>,
       <<64045, <<40372>>>>, <<64046, <<37086>>>>, <<64047, <<38583>>>>, <<64048, <<20398>>>>,
       <<64049, <<20711>>>>, <<64050, <<20813>>>>, <<64051, <<21193>>>>, <<64052, <<21220>>>>,
       <<64053, <<21329>>>>, <<64054, <<21917>>>>, <<64055, <<22022>>>>, <<64056, <<22120>>>>,
       <<64057, <<22592>>>>, <<64058, <<22696>>>>, <<64059, <<23652>>>>, <<64060, <<23662>>>>,
       <<64061, <<24724>>>>, <<64062, <<24936>>>>, <<64063, <<24974>>>>, <<64064, <<25074>>>>,
       <<64065, <<25935>>>>, <<64066, <<26082>>>>, <<64067, <<26257>>>>, <<64068, <<26757>>>>,
       <<64069, <<28023>>>>, <<64070, <<28186>>>>, <<64071, <<28450>>>>, <<64072, <<29038>>>>,
       <<64073, <<29227>>>>, <<64074, <<29730>>>>, <<64075, <<30865>>>>, <<64076, <<31038>>>>,
       <<64077, <<31049>>>>, <<64078, <<31048>>>>, <<64079, <<31056>>>>, <<64080, <<31062>>>>,
       <<64081, <<31069>>>>, <<64082, <<31117>>>>, <<64083, <<31118>>>>, <<64084, <<31296>>>>,
       <<64085, <<31361>>>>, <<64086, <<31680>>>>, <<64087, <<32244>>>>, <<64088, <<32265>>>>,
       <<64089, <<32321>>>>, <<64090, <<32626>>>>, <<64091, <<32773>>>>, <<64092, <<33261>>>>,
       <<64093, <<33401>>>>, <<64094, <<33401>>>>, <<64095, <<33879>>>>, <<64096, <<35088>>>>,
       <<64097, <<35222>>>>, <<64098, <<35585>>>>, <<64099, <<35641>>>>, <<64100, <<36051>>>>,
       <<64101, <<36104>>>>, <<64102, <<36790>>>>, <<64103, <<36920>>>>, <<64104, <<38627>>>>,
       <<64105, <<38911>>>>, <<64106, <<38971>>>>, <<64107, <<24693>>>>, <<64108, <<148206>>>>,
       <<64109, <<33304>>>>, <<64112, <<20006>>>>, <<64113, <<20917>>>>, <<64114, <<20840>>>>,
       <<64115, <<20352>>>>, <<64116, <<20805>>>>, <<64117, <<20864>>>>, <<64118, <<21191>>>>,
       <<64119, <<21242>>>>, <<64120, <<21917>>>>, <<64121, <<21845>>>>, <<64122, <<21913>>>>,
       <<64123, <<21986>>>>, <<64124, <<22618>>>>, <<64125, <<22707>>>>, <<64126, <<22852>>>>,
       <<64127, <<22868>>>>, <<64128, <<23138>>>>, <<64129, <<23336>>>>, <<64130, <<24274>>>>,
       <<64131, <<24281>>>>, <<64132, <<24425>>>>, <<64133, <<24493>>>>, <<64134, <<24792>>>>,
       <<64135, <<24910>>>>, <<64136, <<24840>>>>, <<64137, <<24974>>>>, <<64138, <<24928>>>>,
       <<64139, <<25074>>>>, <<64140, <<25140>>>>, <<64141, <<25540>>>>, <<64142, <<25628>>>>,
       <<64143, <<25682>>>>, <<64144, <<25942>>>>, <<64145, <<26228>>>>, <<64146, <<26391>>>>,
       <<64147, <<26395>>>>, <<64148, <<26454>>>>, <<64149, <<27513>>>>, <<64150, <<27578>>>>,
       <<64151, <<27969>>>>, <<64152, <<28379>>>>, <<64153, <<28363>>>>, <<64154, <<28450>>>>,
       <<64155, <<28702>>>>, <<64156, <<29038>>>>, <<64157, <<30631>>>>, <<64158, <<29237>>>>,
       <<64159, <<29359>>>>, <<64160, <<29482>>>>, <<64161, <<29809>>>>, <<64162, <<29958>>>>,
       <<64163, <<30011>>>>, <<64164, <<30237>>>>, <<64165, <<30239>>>>, <<64166, <<30410>>>>,
       <<64167, <<30427>>>>, <<64168, <<30452>>>>, <<64169, <<30538>>>>, <<64170, <<30528>>>>,
       <<64171, <<30924>>>>, <<64172, <<31409>>>>, <<64173, <<31680>>>>, <<64174, <<31867>>>>,
       <<64175, <<32091>>>>, <<64176, <<32244>>>>, <<64177, <<32574>>>>, <<64178, <<32773>>>>,
       <<64179, <<33618>>>>, <<64180, <<33775>>>>, <<64181, <<34681>>>>, <<64182, <<35137>>>>,
       <<64183, <<35206>>>>, <<64184, <<35222>>>>, <<64185, <<35519>>>>, <<64186, <<35576>>>>,
       <<64187, <<35531>>>>, <<64188, <<35585>>>>, <<64189, <<35582>>>>, <<64190, <<35565>>>>,
       <<64191, <<35641>>>>, <<64192, <<35722>>>>, <<64193, <<36104>>>>, <<64194, <<36664>>>>,
       <<64195, <<36978>>>>, <<64196, <<37273>>>>, <<64197, <<37494>>>>, <<64198, <<38524>>>>,
       <<64199, <<38627>>>>, <<64200, <<38742>>>>, <<64201, <<38875>>>>, <<64202, <<38911>>>>,
       <<64203, <<38923>>>>, <<64204, <<38971>>>>, <<64205, <<39698>>>>, <<64206, <<40860>>>>,
       <<64207, <<141386>>>>, <<64208, <<141380>>>>, <<64209, <<144341>>>>, <<64210, <<15261>>>>,
       <<64211, <<16408>>>>, <<64212, <<16441>>>>, <<64213, <<152137>>>>, <<64214, <<154832>>>>,
       <<64215, <<163539>>>>, <<64216, <<40771>>>>, <<64217, <<40846>>>>,
       <<64285, <<1497, 1460>>>>, <<64287, <<1522, 1463>>>>, <<64298, <<1513, 1473>>>>,
       <<64299, <<1513, 1474>>>>, <<64300, <<1513, 1468, 1473>>>>, <<64301, <<1513, 1468, 1474>>>>,
       <<64302, <<1488, 1463>>>>, <<64303, <<1488, 1464>>>>, <<64304, <<1488, 1468>>>>,
       <<64305, <<1489, 1468>>>>, <<64306, <<1490, 1468>>>>, <<64307, <<1491, 1468>>>>,
       <<64308, <<1492, 1468>>>>, <<64309, <<1493, 1468>>>>, <<64310, <<1494, 1468>>>>,
       <<64312, <<1496, 1468>>>>, <<64313, <<1497, 1468>>>>, <<64314, <<1498, 1468>>>>,
       <<64315, <<1499, 1468>>>>, <<64316, <<1500, 1468>>>>, <<64318, <<1502, 1468>>>>,
       <<64320, <<1504, 1468>>>>, <<64321, <<1505, 1468>>>>, <<64323, <<1507, 1468>>>>,
       <<64324, <<1508, 1468>>>>, <<64326, <<1510, 1468>>>>, <<64327, <<1511, 1468>>>>,
       <<64328, <<1512, 1468>>>>, <<64329, <<1513, 1468>>>>, <<64330, <<1514, 1468>>>>,
       <<64331, <<1493, 1465>>>>, <<64332, <<1489, 1471>>>>, <<64333, <<1499, 1471>>>>,
       <<64334, <<1508, 1471>>>>, <<69786, <<69785, 69818>>>>, <<69788, <<69787, 69818>>>>,
       <<69803, <<69797, 69818>>>>, <<69934, <<69937, 69927>>>>, <<69935, <<69938, 69927>>>>,
       <<70475, <<70471, 70462>>>>, <<70476, <<70471, 70487>>>>, <<70843, <<70841, 70842>>>>,
       <<70844, <<70841, 70832>>>>, <<70846, <<70841, 70845>>>>, <<71098, <<71096, 71087>>>>,
       <<71099, <<71097, 71087>>>>, <<71992, <<71989, 71984>>>>, <<119134, <<119127, 119141>>>>,
       <<119135, <<119128, 119141>>>>, <<119136, <<119128, 119141, 119150>>>>,
       <<119137, <<119128, 119141, 119151>>>>, <<119138, <<119128, 119141, 119152>>>>,
       <<119139, <<119128, 119141, 119153>>>>, <<119140, <<119128, 119141, 119154>>>>,
       <<119227, <<119225, 119141>>>>, <<119228, <<119226, 119141>>>>,
       <<119229, <<119225, 119141, 119150>>>>, <<119230, <<119226, 119141, 119150>>>>,
       <<119231, <<119225, 119141, 119151>>>>, <<119232, <<119226, 119141, 119151>>>>,
       <<194560, <<20029>>>>, <<194561, <<20024>>>>, <<194562, <<20033>>>>, <<194563, <<131362>>>>,
       <<194564, <<20320>>>>, <<194565, <<20398>>>>, <<194566, <<20411>>>>, <<194567, <<20482>>>>,
       <<194568, <<20602>>>>, <<194569, <<20633>>>>, <<194570, <<20711>>>>, <<194571, <<20687>>>>,
       <<194572, <<13470>>>>, <<194573, <<132666>>>>, <<194574, <<20813>>>>, <<194575, <<20820>>>>,
       <<194576, <<20836>>>>, <<194577, <<20855>>>>, <<194578, <<132380>>>>, <<194579, <<13497>>>>,
       <<194580, <<20839>>>>, <<194581, <<20877>>>>, <<194582, <<132427>>>>, <<194583, <<20887>>>>,
       <<194584, <<20900>>>>, <<194585, <<20172>>>>, <<194586, <<20908>>>>, <<194587, <<20917>>>>,
       <<194588, <<168415>>>>, <<194589, <<20981>>>>, <<194590, <<20995>>>>, <<194591, <<13535>>>>,
       <<194592, <<21051>>>>, <<194593, <<21062>>>>, <<194594, <<21106>>>>, <<194595, <<21111>>>>,
       <<194596, <<13589>>>>, <<194597, <<21191>>>>, <<194598, <<21193>>>>, <<194599, <<21220>>>>,
       <<194600, <<21242>>>>, <<194601, <<21253>>>>, <<194602, <<21254>>>>, <<194603, <<21271>>>>,
       <<194604, <<21321>>>>, <<194605, <<21329>>>>, <<194606, <<21338>>>>, <<194607, <<21363>>>>,
       <<194608, <<21373>>>>, <<194609, <<21375>>>>, <<194610, <<21375>>>>, <<194611, <<21375>>>>,
       <<194612, <<133676>>>>, <<194613, <<28784>>>>, <<194614, <<21450>>>>, <<194615, <<21471>>>>,
       <<194616, <<133987>>>>, <<194617, <<21483>>>>, <<194618, <<21489>>>>, <<194619, <<21510>>>>,
       <<194620, <<21662>>>>, <<194621, <<21560>>>>, <<194622, <<21576>>>>, <<194623, <<21608>>>>,
       <<194624, <<21666>>>>, <<194625, <<21750>>>>, <<194626, <<21776>>>>, <<194627, <<21843>>>>,
       <<194628, <<21859>>>>, <<194629, <<21892>>>>, <<194630, <<21892>>>>, <<194631, <<21913>>>>,
       <<194632, <<21931>>>>, <<194633, <<21939>>>>, <<194634, <<21954>>>>, <<194635, <<22294>>>>,
       <<194636, <<22022>>>>, <<194637, <<22295>>>>, <<194638, <<22097>>>>, <<194639, <<22132>>>>,
       <<194640, <<20999>>>>, <<194641, <<22766>>>>, <<194642, <<22478>>>>, <<194643, <<22516>>>>,
       <<194644, <<22541>>>>, <<194645, <<22411>>>>, <<194646, <<22578>>>>, <<194647, <<22577>>>>,
       <<194648, <<22700>>>>, <<194649, <<136420>>>>, <<194650, <<22770>>>>, <<194651, <<22775>>>>,
       <<194652, <<22790>>>>, <<194653, <<22810>>>>, <<194654, <<22818>>>>, <<194655, <<22882>>>>,
       <<194656, <<136872>>>>, <<194657, <<136938>>>>, <<194658, <<23020>>>>,
       <<194659, <<23067>>>>, <<194660, <<23079>>>>, <<194661, <<23000>>>>, <<194662, <<23142>>>>,
       <<194663, <<14062>>>>, <<194664, <<14076>>>>, <<194665, <<23304>>>>, <<194666, <<23358>>>>,
       <<194667, <<23358>>>>, <<194668, <<137672>>>>, <<194669, <<23491>>>>, <<194670, <<23512>>>>,
       <<194671, <<23527>>>>, <<194672, <<23539>>>>, <<194673, <<138008>>>>, <<194674, <<23551>>>>,
       <<194675, <<23558>>>>, <<194676, <<24403>>>>, <<194677, <<23586>>>>, <<194678, <<14209>>>>,
       <<194679, <<23648>>>>, <<194680, <<23662>>>>, <<194681, <<23744>>>>, <<194682, <<23693>>>>,
       <<194683, <<138724>>>>, <<194684, <<23875>>>>, <<194685, <<138726>>>>,
       <<194686, <<23918>>>>, <<194687, <<23915>>>>, <<194688, <<23932>>>>, <<194689, <<24033>>>>,
       <<194690, <<24034>>>>, <<194691, <<14383>>>>, <<194692, <<24061>>>>, <<194693, <<24104>>>>,
       <<194694, <<24125>>>>, <<194695, <<24169>>>>, <<194696, <<14434>>>>, <<194697, <<139651>>>>,
       <<194698, <<14460>>>>, <<194699, <<24240>>>>, <<194700, <<24243>>>>, <<194701, <<24246>>>>,
       <<194702, <<24266>>>>, <<194703, <<172946>>>>, <<194704, <<24318>>>>,
       <<194705, <<140081>>>>, <<194706, <<140081>>>>, <<194707, <<33281>>>>,
       <<194708, <<24354>>>>, <<194709, <<24354>>>>, <<194710, <<14535>>>>, <<194711, <<144056>>>>,
       <<194712, <<156122>>>>, <<194713, <<24418>>>>, <<194714, <<24427>>>>, <<194715, <<14563>>>>,
       <<194716, <<24474>>>>, <<194717, <<24525>>>>, <<194718, <<24535>>>>, <<194719, <<24569>>>>,
       <<194720, <<24705>>>>, <<194721, <<14650>>>>, <<194722, <<14620>>>>, <<194723, <<24724>>>>,
       <<194724, <<141012>>>>, <<194725, <<24775>>>>, <<194726, <<24904>>>>, <<194727, <<24908>>>>,
       <<194728, <<24910>>>>, <<194729, <<24908>>>>, <<194730, <<24954>>>>, <<194731, <<24974>>>>,
       <<194732, <<25010>>>>, <<194733, <<24996>>>>, <<194734, <<25007>>>>, <<194735, <<25054>>>>,
       <<194736, <<25074>>>>, <<194737, <<25078>>>>, <<194738, <<25104>>>>, <<194739, <<25115>>>>,
       <<194740, <<25181>>>>, <<194741, <<25265>>>>, <<194742, <<25300>>>>, <<194743, <<25424>>>>,
       <<194744, <<142092>>>>, <<194745, <<25405>>>>, <<194746, <<25340>>>>, <<194747, <<25448>>>>,
       <<194748, <<25475>>>>, <<194749, <<25572>>>>, <<194750, <<142321>>>>, <<194751, <<25634>>>>,
       <<194752, <<25541>>>>, <<194753, <<25513>>>>, <<194754, <<14894>>>>, <<194755, <<25705>>>>,
       <<194756, <<25726>>>>, <<194757, <<25757>>>>, <<194758, <<25719>>>>, <<194759, <<14956>>>>,
       <<194760, <<25935>>>>, <<194761, <<25964>>>>, <<194762, <<143370>>>>, <<194763, <<26083>>>>,
       <<194764, <<26360>>>>, <<194765, <<26185>>>>, <<194766, <<15129>>>>, <<194767, <<26257>>>>,
       <<194768, <<15112>>>>, <<194769, <<15076>>>>, <<194770, <<20882>>>>, <<194771, <<20885>>>>,
       <<194772, <<26368>>>>, <<194773, <<26268>>>>, <<194774, <<32941>>>>, <<194775, <<17369>>>>,
       <<194776, <<26391>>>>, <<194777, <<26395>>>>, <<194778, <<26401>>>>, <<194779, <<26462>>>>,
       <<194780, <<26451>>>>, <<194781, <<144323>>>>, <<194782, <<15177>>>>, <<194783, <<26618>>>>,
       <<194784, <<26501>>>>, <<194785, <<26706>>>>, <<194786, <<26757>>>>, <<194787, <<144493>>>>,
       <<194788, <<26766>>>>, <<194789, <<26655>>>>, <<194790, <<26900>>>>, <<194791, <<15261>>>>,
       <<194792, <<26946>>>>, <<194793, <<27043>>>>, <<194794, <<27114>>>>, <<194795, <<27304>>>>,
       <<194796, <<145059>>>>, <<194797, <<27355>>>>, <<194798, <<15384>>>>, <<194799, <<27425>>>>,
       <<194800, <<145575>>>>, <<194801, <<27476>>>>, <<194802, <<15438>>>>, <<194803, <<27506>>>>,
       <<194804, <<27551>>>>, <<194805, <<27578>>>>, <<194806, <<27579>>>>, <<194807, <<146061>>>>,
       <<194808, <<138507>>>>, <<194809, <<146170>>>>, <<194810, <<27726>>>>,
       <<194811, <<146620>>>>, <<194812, <<27839>>>>, <<194813, <<27853>>>>, <<194814, <<27751>>>>,
       <<194815, <<27926>>>>, <<194816, <<27966>>>>, <<194817, <<28023>>>>, <<194818, <<27969>>>>,
       <<194819, <<28009>>>>, <<194820, <<28024>>>>, <<194821, <<28037>>>>, <<194822, <<146718>>>>,
       <<194823, <<27956>>>>, <<194824, <<28207>>>>, <<194825, <<28270>>>>, <<194826, <<15667>>>>,
       <<194827, <<28363>>>>, <<194828, <<28359>>>>, <<194829, <<147153>>>>, <<194830, <<28153>>>>,
       <<194831, <<28526>>>>, <<194832, <<147294>>>>, <<194833, <<147342>>>>,
       <<194834, <<28614>>>>, <<194835, <<28729>>>>, <<194836, <<28702>>>>, <<194837, <<28699>>>>,
       <<194838, <<15766>>>>, <<194839, <<28746>>>>, <<194840, <<28797>>>>, <<194841, <<28791>>>>,
       <<194842, <<28845>>>>, <<194843, <<132389>>>>, <<194844, <<28997>>>>,
       <<194845, <<148067>>>>, <<194846, <<29084>>>>, <<194847, <<148395>>>>,
       <<194848, <<29224>>>>, <<194849, <<29237>>>>, <<194850, <<29264>>>>, <<194851, <<149000>>>>,
       <<194852, <<29312>>>>, <<194853, <<29333>>>>, <<194854, <<149301>>>>,
       <<194855, <<149524>>>>, <<194856, <<29562>>>>, <<194857, <<29579>>>>, <<194858, <<16044>>>>,
       <<194859, <<29605>>>>, <<194860, <<16056>>>>, <<194861, <<16056>>>>, <<194862, <<29767>>>>,
       <<194863, <<29788>>>>, <<194864, <<29809>>>>, <<194865, <<29829>>>>, <<194866, <<29898>>>>,
       <<194867, <<16155>>>>, <<194868, <<29988>>>>, <<194869, <<150582>>>>, <<194870, <<30014>>>>,
       <<194871, <<150674>>>>, <<194872, <<30064>>>>, <<194873, <<139679>>>>,
       <<194874, <<30224>>>>, <<194875, <<151457>>>>, <<194876, <<151480>>>>,
       <<194877, <<151620>>>>, <<194878, <<16380>>>>, <<194879, <<16392>>>>, <<194880, <<30452>>>>,
       <<194881, <<151795>>>>, <<194882, <<151794>>>>, <<194883, <<151833>>>>,
       <<194884, <<151859>>>>, <<194885, <<30494>>>>, <<194886, <<30495>>>>, <<194887, <<30495>>>>,
       <<194888, <<30538>>>>, <<194889, <<16441>>>>, <<194890, <<30603>>>>, <<194891, <<16454>>>>,
       <<194892, <<16534>>>>, <<194893, <<152605>>>>, <<194894, <<30798>>>>, <<194895, <<30860>>>>,
       <<194896, <<30924>>>>, <<194897, <<16611>>>>, <<194898, <<153126>>>>, <<194899, <<31062>>>>,
       <<194900, <<153242>>>>, <<194901, <<153285>>>>, <<194902, <<31119>>>>,
       <<194903, <<31211>>>>, <<194904, <<16687>>>>, <<194905, <<31296>>>>, <<194906, <<31306>>>>,
       <<194907, <<31311>>>>, <<194908, <<153980>>>>, <<194909, <<154279>>>>,
       <<194910, <<154279>>>>, <<194911, <<31470>>>>, <<194912, <<16898>>>>,
       <<194913, <<154539>>>>, <<194914, <<31686>>>>, <<194915, <<31689>>>>, <<194916, <<16935>>>>,
       <<194917, <<154752>>>>, <<194918, <<31954>>>>, <<194919, <<17056>>>>, <<194920, <<31976>>>>,
       <<194921, <<31971>>>>, <<194922, <<32000>>>>, <<194923, <<155526>>>>, <<194924, <<32099>>>>,
       <<194925, <<17153>>>>, <<194926, <<32199>>>>, <<194927, <<32258>>>>, <<194928, <<32325>>>>,
       <<194929, <<17204>>>>, <<194930, <<156200>>>>, <<194931, <<156231>>>>,
       <<194932, <<17241>>>>, <<194933, <<156377>>>>, <<194934, <<32634>>>>,
       <<194935, <<156478>>>>, <<194936, <<32661>>>>, <<194937, <<32762>>>>, <<194938, <<32773>>>>,
       <<194939, <<156890>>>>, <<194940, <<156963>>>>, <<194941, <<32864>>>>,
       <<194942, <<157096>>>>, <<194943, <<32880>>>>, <<194944, <<144223>>>>,
       <<194945, <<17365>>>>, <<194946, <<32946>>>>, <<194947, <<33027>>>>, <<194948, <<17419>>>>,
       <<194949, <<33086>>>>, <<194950, <<23221>>>>, <<194951, <<157607>>>>,
       <<194952, <<157621>>>>, <<194953, <<144275>>>>, <<194954, <<144284>>>>,
       <<194955, <<33281>>>>, <<194956, <<33284>>>>, <<194957, <<36766>>>>, <<194958, <<17515>>>>,
       <<194959, <<33425>>>>, <<194960, <<33419>>>>, <<194961, <<33437>>>>, <<194962, <<21171>>>>,
       <<194963, <<33457>>>>, <<194964, <<33459>>>>, <<194965, <<33469>>>>, <<194966, <<33510>>>>,
       <<194967, <<158524>>>>, <<194968, <<33509>>>>, <<194969, <<33565>>>>, <<194970, <<33635>>>>,
       <<194971, <<33709>>>>, <<194972, <<33571>>>>, <<194973, <<33725>>>>, <<194974, <<33767>>>>,
       <<194975, <<33879>>>>, <<194976, <<33619>>>>, <<194977, <<33738>>>>, <<194978, <<33740>>>>,
       <<194979, <<33756>>>>, <<194980, <<158774>>>>, <<194981, <<159083>>>>,
       <<194982, <<158933>>>>, <<194983, <<17707>>>>, <<194984, <<34033>>>>, <<194985, <<34035>>>>,
       <<194986, <<34070>>>>, <<194987, <<160714>>>>, <<194988, <<34148>>>>,
       <<194989, <<159532>>>>, <<194990, <<17757>>>>, <<194991, <<17761>>>>,
       <<194992, <<159665>>>>, <<194993, <<159954>>>>, <<194994, <<17771>>>>,
       <<194995, <<34384>>>>, <<194996, <<34396>>>>, <<194997, <<34407>>>>, <<194998, <<34409>>>>,
       <<194999, <<34473>>>>, <<195000, <<34440>>>>, <<195001, <<34574>>>>, <<195002, <<34530>>>>,
       <<195003, <<34681>>>>, <<195004, <<34600>>>>, <<195005, <<34667>>>>, <<195006, <<34694>>>>,
       <<195007, <<17879>>>>, <<195008, <<34785>>>>, <<195009, <<34817>>>>, <<195010, <<17913>>>>,
       <<195011, <<34912>>>>, <<195012, <<34915>>>>, <<195013, <<161383>>>>, <<195014, <<35031>>>>,
       <<195015, <<35038>>>>, <<195016, <<17973>>>>, <<195017, <<35066>>>>, <<195018, <<13499>>>>,
       <<195019, <<161966>>>>, <<195020, <<162150>>>>, <<195021, <<18110>>>>,
       <<195022, <<18119>>>>, <<195023, <<35488>>>>, <<195024, <<35565>>>>, <<195025, <<35722>>>>,
       <<195026, <<35925>>>>, <<195027, <<162984>>>>, <<195028, <<36011>>>>, <<195029, <<36033>>>>,
       <<195030, <<36123>>>>, <<195031, <<36215>>>>, <<195032, <<163631>>>>,
       <<195033, <<133124>>>>, <<195034, <<36299>>>>, <<195035, <<36284>>>>, <<195036, <<36336>>>>,
       <<195037, <<133342>>>>, <<195038, <<36564>>>>, <<195039, <<36664>>>>,
       <<195040, <<165330>>>>, <<195041, <<165357>>>>, <<195042, <<37012>>>>,
       <<195043, <<37105>>>>, <<195044, <<37137>>>>, <<195045, <<165678>>>>, <<195046, <<37147>>>>,
       <<195047, <<37432>>>>, <<195048, <<37591>>>>, <<195049, <<37592>>>>, <<195050, <<37500>>>>,
       <<195051, <<37881>>>>, <<195052, <<37909>>>>, <<195053, <<166906>>>>, <<195054, <<38283>>>>,
       <<195055, <<18837>>>>, <<195056, <<38327>>>>, <<195057, <<167287>>>>, <<195058, <<18918>>>>,
       <<195059, <<38595>>>>, <<195060, <<23986>>>>, <<195061, <<38691>>>>, <<195062, <<168261>>>>,
       <<195063, <<168474>>>>, <<195064, <<19054>>>>, <<195065, <<19062>>>>, <<195066, <<38880>>>>,
       <<195067, <<168970>>>>, <<195068, <<19122>>>>, <<195069, <<169110>>>>,
       <<195070, <<38923>>>>, <<195071, <<38923>>>>, <<195072, <<38953>>>>, <<195073, <<169398>>>>,
       <<195074, <<39138>>>>, <<195075, <<19251>>>>, <<195076, <<39209>>>>, <<195077, <<39335>>>>,
       <<195078, <<39362>>>>, <<195079, <<39422>>>>, <<195080, <<19406>>>>, <<195081, <<170800>>>>,
       <<195082, <<39698>>>>, <<195083, <<40000>>>>, <<195084, <<40189>>>>, <<195085, <<19662>>>>,
       <<195086, <<19693>>>>, <<195087, <<40295>>>>, <<195088, <<172238>>>>, <<195089, <<19704>>>>,
       <<195090, <<172293>>>>, <<195091, <<172558>>>>, <<195092, <<172689>>>>,
       <<195093, <<40635>>>>, <<195094, <<19798>>>>, <<195095, <<40697>>>>, <<195096, <<40702>>>>,
       <<195097, <<40709>>>>, <<195098, <<40719>>>>, <<195099, <<40726>>>>, <<195100, <<40763>>>>,
       <<195101, <<173568>>>>
    >>

\* The primary composites as rows <<first code point, pairs of a second code
\* point and the composite of the two>> (Hangul syllables left out).
CompositionTable ==
    <<
       <<60, <<<<824, 8814>>>>>>, <<61, <<<<824, 8800>>>>>>, <<62, <<<<824, 8815>>>>>>,
       <<65, <<<<768, 192>>, <<769, 193>>, <<770, 194>>, <<771, 195>>, <<772, 256>>, <<774, 258>>, <<775, 550>>, <<776, 196>>, <<777, 7842>>, <<778, 197>>, <<780, 461>>, <<783, 512>>, <<785, 514>>, <<803, 7840>>, <<805, 7680>>, <<808, 260>>>>>>,
       <<66, <<<<775, 7682>>, <<803, 7684>>, <<817, 7686>>>>>>,
       <<67, <<<<769, 262>>, <<770, 264>>, <<775, 266>>, <<780, 268>>, <<807, 199>>>>>>,
       <<68, <<<<775, 7690>>, <<780, 270>>, <<803, 7692>>, <<807, 7696>>, <<813, 7698>>, <<817, 7694>>>>>>,
       <<69, <<<<768, 200>>, <<769, 201>>, <<770, 202>>, <<771, 7868>>, <<772, 274>>, <<774, 276>>, <<775, 278>>, <<776, 203>>, <<777, 7866>>, <<780, 282>>, <<783, 516>>, <<785, 518>>, <<803, 7864>>, <<807, 552>>, <<808, 280>>, <<813, 7704>>, <<816, 7706>>>>>>,
       <<70, <<<<775, 7710>>>>>>,
       <<71, <<<<769, 500>>, <<770, 284>>, <<772, 7712>>, <<774, 286>>, <<775, 288>>, <<780, 486>>, <<807, 290>>>>>>,
       <<72, <<<<770, 292>>, <<775, 7714>>, <<776, 7718>>, <<780, 542>>, <<803, 7716>>, <<807, 7720>>, <<814, 7722>>>>>>,
       <<73, <<<<768, 204>>, <<769, 205>>, <<770, 206>>, <<771, 296>>, <<772, 298>>, <<774, 300>>, <<775, 304>>, <<776, 207>>, <<777, 7880>>, <<780, 463>>, <<783, 520>>, <<785, 522>>, <<803, 7882>>, <<808, 302>>, <<816, 7724>>>>>>,
       <<74, <<<<770, 308>>>>>>,
       <<75, <<<<769, 7728>>, <<780, 488>>, <<803, 7730>>, <<807, 310>>, <<817, 7732>>>>>>,
       <<76, <<<<769, 313>>, <<780, 317>>, <<803, 7734>>, <<807, 315>>, <<813, 7740>>, <<817, 7738>>>>>>,
       <<77, <<<<769, 7742>>, <<775, 7744>>, <<803, 7746>>>>>>,
       <<78, <<<<768, 504>>, <<769, 323>>, <<771, 209>>, <<775, 7748>>, <<780, 327>>, <<803, 7750>>, <<807, 325>>, <<813, 7754>>, <<817, 7752>>>>>>,
       <<79, <<<<768, 210>>, <<769, 211>>, <<770, 212>>, <<771, 213>>, <<772, 332>>, <<774, 334>>, <<775, 558>>, <<776, 214>>, <<777, 7886>>, <<779, 336>>, <<780, 465>>, <<783, 524>>, <<785, 526>>, <<795, 416>>, <<803, 7884>>, <<808, 490>>>>>>,
       <<80, <<<<769, 7764>>, <<775, 7766>>>>>>,
       <<82, <<<<769, 340>>, <<775, 7768>>, <<780, 344>>, <<783, 528>>, <<785, 530>>, <<803, 7770>>, <<807, 342>>, <<817, 7774>>>>>>,
       <<83, <<<<769, 346>>, <<770, 348>>, <<775, 7776>>, <<780, 352>>, <<803, 7778>>, <<806, 536>>, <<807, 350>>>>>>,
       <<84, <<<<775, 7786>>, <<780, 356>>, <<803, 7788>>, <<806, 538>>, <<807, 354>>, <<813, 7792>>, <<817, 7790>>>>>>,
       <<85, <<<<768, 217>>, <<769, 218>>, <<770, 219>>, <<771, 360>>, <<772, 362>>, <<774, 364>>, <<776, 220>>, <<777, 7910>>, <<778, 366>>, <<779, 368>>, <<780, 467>>, <<783, 532>>, <<785, 534>>, <<795, 431>>, <<803, 7908>>, <<804, 7794>>, <<808, 370>>, <<813, 7798>>, <<816, 7796>>>>>>,
       <<86, <<<<771, 7804>>, <<803, 7806>>>>>>,
       <<87, <<<<768, 7808>>, <<769, 7810>>, <<770, 372>>, <<775, 7814>>, <<776, 7812>>, <<803, 7816>>>>>>,
       <<88, <<<<775, 7818>>, <<776, 7820>>>>>>,
       <<89, <<<<768, 7922>>, <<769, 221>>, <<770, 374>>, <<771, 7928>>, <<772, 562>>, <<775, 7822>>, <<776, 376>>, <<777, 7926>>, <<803, 7924>>>>>>,
       <<90, <<<<769, 377>>, <<770, 7824>>, <<775, 379>>, <<780, 381>>, <<803, 7826>>, <<817, 7828>>>>>>,
       <<97, <<<<768, 224>>, <<769, 225>>, <<770, 226>>, <<771, 227>>, <<772, 257>>, <<774, 259>>, <<775, 551>>, <<776, 228>>, <<777, 7843>>, <<778, 229>>, <<780, 462>>, <<783, 513>>, <<785, 515>>, <<803, 7841>>, <<805, 7681>>, <<808, 261>>>>>>,
       <<98, <<<<775, 7683>>, <<803, 7685>>, <<817, 7687>>>>>>,
       <<99, <<<<769, 263>>, <<770, 265>>, <<775, 267>>, <<780, 269>>, <<807, 231>>>>>>,
       <<100, <<<<775, 7691>>, <<780, 271>>, <<803, 7693>>, <<807, 7697>>, <<813, 7699>>, <<817, 7695>>>>>>,
       <<101, <<<<768, 232>>, <<769, 233>>, <<770, 234>>, <<771, 7869>>, <<772, 275>>, <<774, 277>>, <<775, 279>>, <<776, 235>>, <<777, 7867>>, <<780, 283>>, <<783, 517>>, <<785, 519>>, <<803, 7865>>, <<807, 553>>, <<808, 281>>, <<813, 7705>>, <<816, 7707>>>>>>,
       <<102, <<<<775, 7711>>>>>>,
       <<103, <<<<769, 501>>, <<770, 285>>, <<772, 7713>>, <<774, 287>>, <<775, 289>>, <<780, 487>>, <<807, 291>>>>>>,
       <<104, <<<<770, 293>>, <<775, 7715>>, <<776, 7719>>, <<780, 543>>, <<803, 7717>>, <<807, 7721>>, <<814, 7723>>, <<817, 7830>>>>>>,
       <<105, <<<<768, 236>>, <<769, 237>>, <<770, 238>>, <<771, 297>>, <<772, 299>>, <<774, 301>>, <<776, 239>>, <<777, 7881>>, <<780, 464>>, <<783, 521>>, <<785, 523>>, <<803, 7883>>, <<808, 303>>, <<816, 7725>>>>>>,
       <<106, <<<<770, 309>>, <<780, 496>>>>>>,
       <<107, <<<<769, 7729>>, <<780, 489>>, <<803, 7731>>, <<807, 311>>, <<817, 7733>>>>>>,
       <<108, <<<<769, 314>>, <<780, 318>>, <<803, 7735>>, <<807, 316>>, <<813, 7741>>, <<817, 7739>>>>>>,
       <<109, <<<<769, 7743>>, <<775, 7745>>, <<803, 7747>>>>>>,
       <<110, <<<<768, 505>>, <<769, 324>>, <<771, 241>>, <<775, 7749>>, <<780, 328>>, <<803, 7751>>, <<807, 326>>, <<813, 7755>>, <<817, 7753>>>>>>,
       <<111, <<<<768, 242>>, <<769, 243>>, <<770, 244>>, <<771, 245>>, <<772, 333>>, <<774, 335>>, <<775, 559>>, <<776, 246>>, <<777, 7887>>, <<779, 337>>, <<780, 466>>, <<783, 525>>, <<785, 527>>, <<795, 417>>, <<803, 7885>>, <<808, 491>>>>>>,
       <<112, <<<<769, 7765>>, <<775, 7767>>>>>>,
       <<114, <<<<769, 341>>, <<775, 7769>>, <<780, 345>>, <<783, 529>>, <<785, 531>>, <<803, 7771>>, <<807, 343>>, <<817, 7775>>>>>>,
       <<115, <<<<769, 347>>, <<770, 349>>, <<775, 7777>>, <<780, 353>>, <<803, 7779>>, <<806, 537>>, <<807, 351>>>>>>,
       <<116, <<<<775, 7787>>, <<776, 7831>>, <<780, 357>>, <<803, 7789>>, <<806, 539>>, <<807, 355>>, <<813, 7793>>, <<817, 7791>>>>>>,
       <<117, <<<<768, 249>>, <<769, 250>>, <<770, 251>>, <<771, 361>>, <<772, 363>>, <<774, 365>>, <<776, 252>>, <<777, 7911>>, <<778, 367>>, <<779, 369>>, <<780, 468>>, <<783, 533>>, <<785, 535>>, <<795, 432>>, <<803, 7909>>, <<804, 7795>>, <<808, 371>>, <<813, 7799>>, <<816, 7797>>>>>>,
       <<118, <<<<771, 7805>>, <<803, 7807>>>>>>,
       <<119, <<<<768, 7809>>, <<769, 7811>>, <<770, 373>>, <<775, 7815>>, <<776, 7813>>, <<778, 7832>>, <<803, 7817>>>>>>,
       <<120, <<<<775, 7819>>, <<776, 7821>>>>>>,
       <<121, <<<<768, 7923>>, <<769, 253>>, <<770, 375>>, <<771, 7929>>, <<772, 563>>, <<775, 7823>>, <<776, 255>>, <<777, 7927>>, <<778, 7833>>, <<803, 7925>>>>>>,
       <<122, <<<<769, 378>>, <<770, 7825>>, <<775, 380>>, <<780, 382>>, <<803, 7827>>, <<817, 7829>>>>>>,
       <<168, <<<<768, 8173>>, <<769, 901>>, <<834, 8129>>>>>>,
       <<194, <<<<768, 7846>>, <<769, 7844>>, <<771, 7850>>, <<777, 7848>>>>>>,
       <<196, <<<<772, 478>>>>>>, <<197, <<<<769, 506>>>>>>,
       <<198, <<<<769, 508>>, <<772, 482>>>>>>, <<199, <<<<769, 7688>>>>>>,
       <<202, <<<<768, 7872>>, <<769, 7870>>, <<771, 7876>>, <<777, 7874>>>>>>,
       <<207, <<<<769, 7726>>>>>>,
       <<212, <<<<768, 7890>>, <<769, 7888>>, <<771, 7894>>, <<777, 7892>>>>>>,
       <<213, <<<<769, 7756>>, <<772, 556>>, <<776, 7758>>>>>>, <<214, <<<<772, 554>>>>>>,
       <<216, <<<<769, 510>>>>>>,
       <<220, <<<<768, 475>>, <<769, 471>>, <<772, 469>>, <<780, 473>>>>>>,
       <<226, <<<<768, 7847>>, <<769, 7845>>, <<771, 7851>>, <<777, 7849>>>>>>,
       <<228, <<<<772, 479>>>>>>, <<229, <<<<769, 507>>>>>>,
       <<230, <<<<769, 509>>, <<772, 483>>>>>>, <<231, <<<<769, 7689>>>>>>,
       <<234, <<<<768, 7873>>, <<769, 7871>>, <<771, 7877>>, <<777, 7875>>>>>>,
       <<239, <<<<769, 7727>>>>>>,
       <<244, <<<<768, 7891>>, <<769, 7889>>, <<771, 7895>>, <<777, 7893>>>>>>,
       <<245, <<<<769, 7757>>, <<772, 557>>, <<776, 7759>>>>>>, <<246, <<<<772, 555>>>>>>,
       <<248, <<<<769, 511>>>>>>,
       <<252, <<<<768, 476>>, <<769, 472>>, <<772, 470>>, <<780, 474>>>>>>,
       <<258, <<<<768, 7856>>, <<769, 7854>>, <<771, 7860>>, <<777, 7858>>>>>>,
       <<259, <<<<768, 7857>>, <<769, 7855>>, <<771, 7861>>, <<777, 7859>>>>>>,
       <<274, <<<<768, 7700>>, <<769, 7702>>>>>>, <<275, <<<<768, 7701>>, <<769, 7703>>>>>>,
       <<332, <<<<768, 7760>>, <<769, 7762>>>>>>, <<333, <<<<768, 7761>>, <<769, 7763>>>>>>,
       <<346, <<<<775, 7780>>>>>>, <<347, <<<<775, 7781>>>>>>, <<352, <<<<775, 7782>>>>>>,
       <<353, <<<<775, 7783>>>>>>, <<360, <<<<769, 7800>>>>>>, <<361, <<<<769, 7801>>>>>>,
       <<362, <<<<776, 7802>>>>>>, <<363, <<<<776, 7803>>>>>>, <<383, <<<<775, 7835>>>>>>,
       <<416, <<<<768, 7900>>, <<769, 7898>>, <<771, 7904>>, <<777, 7902>>, <<803, 7906>>>>>>,
       <<417, <<<<768, 7901>>, <<769, 7899>>, <<771, 7905>>, <<777, 7903>>, <<803, 7907>>>>>>,
       <<431, <<<<768, 7914>>, <<769, 7912>>, <<771, 7918>>, <<777, 7916>>, <<803, 7920>>>>>>,
       <<432, <<<<768, 7915>>, <<769, 7913>>, <<771, 7919>>, <<777, 7917>>, <<803, 7921>>>>>>,
       <<439, <<<<780, 494>>>>>>, <<490, <<<<772, 492>>>>>>, <<491, <<<<772, 493>>>>>>,
       <<550, <<<<772, 480>>>>>>, <<551, <<<<772, 481>>>>>>, <<552, <<<<774, 7708>>>>>>,
       <<553, <<<<774, 7709>>>>>>, <<558, <<<<772, 560>>>>>>, <<559, <<<<772, 561>>>>>>,
       <<658, <<<<780, 495>>>>>>,
       <<913, <<<<768, 8122>>, <<769, 902>>, <<772, 8121>>, <<774, 8120>>, <<787, 7944>>, <<788, 7945>>, <<837, 8124>>>>>>,
       <<917, <<<<768, 8136>>, <<769, 904>>, <<787, 7960>>, <<788, 7961>>>>>>,
       <<919, <<<<768, 8138>>, <<769, 905>>, <<787, 7976>>, <<788, 7977>>, <<837, 8140>>>>>>,
       <<921, <<<<768, 8154>>, <<769, 906>>, <<772, 8153>>, <<774, 8152>>, <<776, 938>>, <<787, 7992>>, <<788, 7993>>>>>>,
       <<927, <<<<768, 8184>>, <<769, 908>>, <<787, 8008>>, <<788, 8009>>>>>>,
       <<929, <<<<788, 8172>>>>>>,
       <<933, <<<<768, 8170>>, <<769, 910>>, <<772, 8169>>, <<774, 8168>>, <<776, 939>>, <<788, 8025>>>>>>,
       <<937, <<<<768, 8186>>, <<769, 911>>, <<787, 8040>>, <<788, 8041>>, <<837, 8188>>>>>>,
       <<940, <<<<837, 8116>>>>>>, <<942, <<<<837, 8132>>>>>>,
       <<945, <<<<768, 8048>>, <<769, 940>>, <<772, 8113>>, <<774, 8112>>, <<787, 7936>>, <<788, 7937>>, <<834, 8118>>, <<837, 8115>>>>>>,
       <<949, <<<<768, 8050>>, <<769, 941>>, <<787, 7952>>, <<788, 7953>>>>>>,
       <<951, <<<<768, 8052>>, <<769, 942>>, <<787, 7968>>, <<788, 7969>>, <<834, 8134>>, <<837, 8131>>>>>>,
       <<953, <<<<768, 8054>>, <<769, 943>>, <<772, 8145>>, <<774, 8144>>, <<776, 970>>, <<787, 7984>>, <<788, 7985>>, <<834, 8150>>>>>>,
       <<959, <<<<768, 8056>>, <<769, 972>>, <<787, 8000>>, <<788, 8001>>>>>>,
       <<961, <<<<787, 8164>>, <<788, 8165>>>>>>,
       <<965, <<<<768, 8058>>, <<769, 973>>, <<772, 8161>>, <<774, 8160>>, <<776, 971>>, <<787, 8016>>, <<788, 8017>>, <<834, 8166>>>>>>,
       <<969, <<<<768, 8060>>, <<769, 974>>, <<787, 8032>>, <<788, 8033>>, <<834, 8182>>, <<837, 8179>>>>>>,
       <<970, <<<<768, 8146>>, <<769, 912>>, <<834, 8151>>>>>>,
       <<971, <<<<768, 8162>>, <<769, 944>>, <<834, 8167>>>>>>, <<974, <<<<837, 8180>>>>>>,
       <<978, <<<<769, 979>>, <<776, 980>>>>>>, <<1030, <<<<776, 1031>>>>>>,
       <<1040, <<<<774, 1232>>, <<776, 1234>>>>>>, <<1043, <<<<769, 1027>>>>>>,
       <<1045, <<<<768, 1024>>, <<774, 1238>>, <<776, 1025>>>>>>,
       <<1046, <<<<774, 1217>>, <<776, 1244>>>>>>, <<1047, <<<<776, 1246>>>>>>,
       <<1048, <<<<768, 1037>>, <<772, 1250>>, <<774, 1049>>, <<776, 1252>>>>>>,
       <<1050, <<<<769, 1036>>>>>>, <<1054, <<<<776, 1254>>>>>>,
       <<1059, <<<<772, 1262>>, <<774, 1038>>, <<776, 1264>>, <<779, 1266>>>>>>,
       <<1063, <<<<776, 1268>>>>>>, <<1067, <<<<776, 1272>>>>>>, <<1069, <<<<776, 1260>>>>>>,
       <<1072, <<<<774, 1233>>, <<776, 1235>>>>>>, <<1075, <<<<769, 1107>>>>>>,
       <<1077, <<<<768, 1104>>, <<774, 1239>>, <<776, 1105>>>>>>,
       <<1078, <<<<774, 1218>>, <<776, 1245>>>>>>, <<1079, <<<<776, 1247>>>>>>,
       <<1080, <<<<768, 1117>>, <<772, 1251>>, <<774, 1081>>, <<776, 1253>>>>>>,
       <<1082, <<<<769, 1116>>>>>>, <<1086, <<<<776, 1255>>>>>>,
       <<1091, <<<<772, 1263>>, <<774, 1118>>, <<776, 1265>>, <<779, 1267>>>>>>,
       <<1095, <<<<776, 1269>>>>>>, <<1099, <<<<776, 1273>>>>>>, <<1101, <<<<776, 1261>>>>>>,
       <<1110, <<<<776, 1111>>>>>>, <<1140, <<<<783, 1142>>>>>>, <<1141, <<<<783, 1143>>>>>>,
       <<1240, <<<<776, 1242>>>>>>, <<1241, <<<<776, 1243>>>>>>, <<1256, <<<<776, 1258>>>>>>,
       <<1257, <<<<776, 1259>>>>>>, <<1575, <<<<1619, 1570>>, <<1620, 1571>>, <<1621, 1573>>>>>>,
       <<1608, <<<<1620, 1572>>>>>>, <<1610, <<<<1620, 1574>>>>>>, <<1729, <<<<1620, 1730>>>>>>,
       <<1746, <<<<1620, 1747>>>>>>, <<1749, <<<<1620, 1728>>>>>>, <<2344, <<<<2364, 2345>>>>>>,
       <<2352, <<<<2364, 2353>>>>>>, <<2355, <<<<2364, 2356>>>>>>,
       <<2503, <<<<2494, 2507>>, <<2519, 2508>>>>>>,
       <<2887, <<<<2878, 2891>>, <<2902, 2888>>, <<2903, 2892>>>>>>, <<2962, <<<<3031, 2964>>>>>>,
       <<3014, <<<<3006, 3018>>, <<3031, 3020>>>>>>, <<3015, <<<<3006, 3019>>>>>>,
       <<3142, <<<<3158, 3144>>>>>>, <<3263, <<<<3285, 3264>>>>>>,
       <<3270, <<<<3266, 3274>>, <<3285, 3271>>, <<3286, 3272>>>>>>, <<3274, <<<<3285, 3275>>>>>>,
       <<3398, <<<<3390, 3402>>, <<3415, 3404>>>>>>, <<3399, <<<<3390, 3403>>>>>>,
       <<3545, <<<<3530, 3546>>, <<3535, 3548>>, <<3551, 3550>>>>>>, <<3548, <<<<3530, 3549>>>>>>,
       <<4133, <<<<4142, 4134>>>>>>, <<6917, <<<<6965, 6918>>>>>>, <<6919, <<<<6965, 6920>>>>>>,
       <<6921, <<<<6965, 6922>>>>>>, <<6923, <<<<6965, 6924>>>>>>, <<6925, <<<<6965, 6926>>>>>>,
       <<6929, <<<<6965, 6930>>>>>>, <<6970, <<<<6965, 6971>>>>>>, <<6972, <<<<6965, 6973>>>>>>,
       <<6974, <<<<6965, 6976>>>>>>, <<6975, <<<<6965, 6977>>>>>>, <<6978, <<<<6965, 6979>>>>>>,
       <<7734, <<<<772, 7736>>>>>>, <<7735, <<<<772, 7737>>>>>>, <<7770, <<<<772, 7772>>>>>>,
       <<7771, <<<<772, 7773>>>>>>, <<7778, <<<<775, 7784>>>>>>, <<7779, <<<<775, 7785>>>>>>,
       <<7840, <<<<770, 7852>>, <<774, 7862>>>>>>, <<7841, <<<<770, 7853>>, <<774, 7863>>>>>>,
       <<7864, <<<<770, 7878>>>>>>, <<7865, <<<<770, 7879>>>>>>, <<7884, <<<<770, 7896>>>>>>,
       <<7885, <<<<770, 7897>>>>>>,
       <<7936, <<<<768, 7938>>, <<769, 7940>>, <<834, 7942>>, <<837, 8064>>>>>>,
       <<7937, <<<<768, 7939>>, <<769, 7941>>, <<834, 7943>>, <<837, 8065>>>>>>,
       <<7938, <<<<837, 8066>>>>>>, <<7939, <<<<837, 8067>>>>>>, <<7940, <<<<837, 8068>>>>>>,
       <<7941, <<<<837, 8069>>>>>>, <<7942, <<<<837, 8070>>>>>>, <<7943, <<<<837, 8071>>>>>>,
       <<7944, <<<<768, 7946>>, <<769, 7948>>, <<834, 7950>>, <<837, 8072>>>>>>,
       <<7945, <<<<768, 7947>>, <<769, 7949>>, <<834, 7951>>, <<837, 8073>>>>>>,
       <<7946, <<<<837, 8074>>>>>>, <<7947, <<<<837, 8075>>>>>>, <<7948, <<<<837, 8076>>>>>>,
       <<7949, <<<<837, 8077>>>>>>, <<7950, <<<<837, 8078>>>>>>, <<7951, <<<<837, 8079>>>>>>,
       <<7952, <<<<768, 7954>>, <<769, 7956>>>>>>, <<7953, <<<<768, 7955>>, <<769, 7957>>>>>>,
       <<7960, <<<<768, 7962>>, <<769, 7964>>>>>>, <<7961, <<<<768, 7963>>, <<769, 7965>>>>>>,
       <<7968, <<<<768, 7970>>, <<769, 7972>>, <<834, 7974>>, <<837, 8080>>>>>>,
       <<7969, <<<<768, 7971>>, <<769, 7973>>, <<834, 7975>>, <<837, 8081>>>>>>,
       <<7970, <<<<837, 8082>>>>>>, <<7971, <<<<837, 8083>>>>>>, <<7972, <<<<837, 8084>>>>>>,
       <<7973, <<<<837, 8085>>>>>>, <<7974, <<<<837, 8086>>>>>>, <<7975, <<<<837, 8087>>>>>>,
       <<7976, <<<<768, 7978>>, <<769, 7980>>, <<834, 7982>>, <<837, 8088>>>>>>,
       <<7977, <<<<768, 7979>>, <<769, 7981>>, <<834, 7983>>, <<837, 8089>>>>>>,
       <<7978, <<<<837, 8090>>>>>>, <<7979, <<<<837, 8091>>>>>>, <<7980, <<<<837, 8092>>>>>>,
       <<7981, <<<<837, 8093>>>>>>, <<7982, <<<<837, 8094>>>>>>, <<7983, <<<<837, 8095>>>>>>,
       <<7984, <<<<768, 7986>>, <<769, 7988>>, <<834, 7990>>>>>>,
       <<7985, <<<<768, 7987>>, <<769, 7989>>, <<834, 7991>>>>>>,
       <<7992, <<<<768, 7994>>, <<769, 7996>>, <<834, 7998>>>>>>,
       <<7993, <<<<768, 7995>>, <<769, 7997>>, <<834, 7999>>>>>>,
       <<8000, <<<<768, 8002>>, <<769, 8004>>>>>>, <<8001, <<<<768, 8003>>, <<769, 8005>>>>>>,
       <<8008, <<<<768, 8010>>, <<769, 8012>>>>>>, <<8009, <<<<768, 8011>>, <<769, 8013>>>>>>,
       <<8016, <<<<768, 8018>>, <<769, 8020>>, <<834, 8022>>>>>>,
       <<8017, <<<<768, 8019>>, <<769, 8021>>, <<834, 8023>>>>>>,
       <<8025, <<<<768, 8027>>, <<769, 8029>>, <<834, 8031>>>>>>,
       <<8032, <<<<768, 8034>>, <<769, 8036>>, <<834, 8038>>, <<837, 8096>>>>>>,
       <<8033, <<<<768, 8035>>, <<769, 8037>>, <<834, 8039>>, <<837, 8097>>>>>>,
       <<8034, <<<<837, 8098>>>>>>, <<8035, <<<<837, 8099>>>>>>, <<8036, <<<<837, 8100>>>>>>,
       <<8037, <<<<837, 8101>>>>>>, <<8038, <<<<837, 8102>>>>>>, <<8039, <<<<837, 8103>>>>>>,
       <<8040, <<<<768, 8042>>, <<769, 8044>>, <<834, 8046>>, <<837, 8104>>>>>>,
       <<8041, <<<<768, 8043>>, <<769, 8045>>, <<834, 8047>>, <<837, 8105>>>>>>,
       <<8042, <<<<837, 8106>>>>>>, <<8043, <<<<837, 8107>>>>>>, <<8044, <<<<837, 8108>>>>>>,
       <<8045, <<<<837, 8109>>>>>>, <<8046, <<<<837, 8110>>>>>>, <<8047, <<<<837, 8111>>>>>>,
       <<8048, <<<<837, 8114>>>>>>, <<8052, <<<<837, 8130>>>>>>, <<8060, <<<<837, 8178>>>>>>,
       <<8118, <<<<837, 8119>>>>>>, <<8127, <<<<768, 8141>>, <<769, 8142>>, <<834, 8143>>>>>>,
       <<8134, <<<<837, 8135>>>>>>, <<8182, <<<<837, 8183>>>>>>,
       <<8190, <<<<768, 8157>>, <<769, 8158>>, <<834, 8159>>>>>>, <<8592, <<<<824, 8602>>>>>>,
       <<8594, <<<<824, 8603>>>>>>, <<8596, <<<<824, 8622>>>>>>, <<8656, <<<<824, 8653>>>>>>,
       <<8658, <<<<824, 8655>>>>>>, <<8660, <<<<824, 8654>>>>>>, <<8707, <<<<824, 8708>>>>>>,
       <<8712, <<<<824, 8713>>>>>>, <<8715, <<<<824, 8716>>>>>>, <<8739, <<<<824, 8740>>>>>>,
       <<8741, <<<<824, 8742>>>>>>, <<8764, <<<<824, 8769>>>>>>, <<8771, <<<<824, 8772>>>>>>,
       <<8773, <<<<824, 8775>>>>>>, <<8776, <<<<824, 8777>>>>>>, <<8781, <<<<824, 8813>>>>>>,
       <<8801, <<<<824, 8802>>>>>>, <<8804, <<<<824, 8816>>>>>>, <<8805, <<<<824, 8817>>>>>>,
       <<8818, <<<<824, 8820>>>>>>, <<8819, <<<<824, 8821>>>>>>, <<8822, <<<<824, 8824>>>>>>,
       <<8823, <<<<824, 8825>>>>>>, <<8826, <<<<824, 8832>>>>>>, <<8827, <<<<824, 8833>>>>>>,
       <<8828, <<<<824, 8928>>>>>>, <<8829, <<<<824, 8929>>>>>>, <<8834, <<<<824, 8836>>>>>>,
       <<8835, <<<<824, 8837>>>>>>, <<8838, <<<<824, 8840>>>>>>, <<8839, <<<<824, 8841>>>>>>,
       <<8849, <<<<824, 8930>>>>>>, <<8850, <<<<824, 8931>>>>>>, <<8866, <<<<824, 8876>>>>>>,
       <<8872, <<<<824, 8877>>>>>>, <<8873, <<<<824, 8878>>>>>>, <<8875, <<<<824, 8879>>>>>>,
       <<8882, <<<<824, 8938>>>>>>, <<8883, <<<<824, 8939>>>>>>, <<8884, <<<<824, 8940>>>>>>,
       <<8885, <<<<824, 8941>>>>>>, <<12358, <<<<12441, 12436>>>>>>,
       <<12363, <<<<12441, 12364>>>>>>, <<12365, <<<<12441, 12366>>>>>>,
       <<12367, <<<<12441, 12368>>>>>>, <<12369, <<<<12441, 12370>>>>>>,
       <<12371, <<<<12441, 12372>>>>>>, <<12373, <<<<12441, 12374>>>>>>,
       <<12375, <<<<12441, 12376>>>>>>, <<12377, <<<<12441, 12378>>>>>>,
       <<12379, <<<<12441, 12380>>>>>>, <<12381, <<<<12441, 12382>>>>>>,
       <<12383, <<<<12441, 12384>>>>>>, <<12385, <<<<12441, 12386>>>>>>,
       <<12388, <<<<12441, 12389>>>>>>, <<12390, <<<<12441, 12391>>>>>>,
       <<12392, <<<<12441, 12393>>>>>>, <<12399, <<<<12441, 12400>>, <<12442, 12401>>>>>>,
       <<12402, <<<<12441, 12403>>, <<12442, 12404>>>>>>,
       <<12405, <<<<12441, 12406>>, <<12442, 12407>>>>>>,
       <<12408, <<<<12441, 12409>>, <<12442, 12410>>>>>>,
       <<12411, <<<<12441, 12412>>, <<12442, 12413>>>>>>, <<12445, <<<<12441, 12446>>>>>>,
       <<12454, <<<<12441, 12532>>>>>>, <<12459, <<<<12441, 12460>>>>>>,
       <<12461, <<<<12441, 12462>>>>>>, <<12463, <<<<12441, 12464>>>>>>,
       <<12465, <<<<12441, 12466>>>>>>, <<12467, <<<<12441, 12468>>>>>>,
       <<12469, <<<<12441, 12470>>>>>>, <<12471, <<<<12441, 12472>>>>>>,
       <<12473, <<<<12441, 12474>>>>>>, <<12475, <<<<12441, 12476>>>>>>,
       <<12477, <<<<12441, 12478>>>>>>, <<12479, <<<<12441, 12480>>>>>>,
       <<12481, <<<<12441, 12482>>>>>>, <<12484, <<<<12441, 12485>>>>>>,
       <<12486, <<<<12441, 12487>>>>>>, <<12488, <<<<12441, 12489>>>>>>,
       <<12495, <<<<12441, 12496>>, <<12442, 12497>>>>>>,
       <<12498, <<<<12441, 12499>>, <<12442, 12500>>>>>>,
       <<12501, <<<<12441, 12502>>, <<12442, 12503>>>>>>,
       <<12504, <<<<12441, 12505>>, <<12442, 12506>>>>>>,
       <<12507, <<<<12441, 12508>>, <<12442, 12509>>>>>>, <<12527, <<<<12441, 12535>>>>>>,
       <<12528, <<<<12441, 12536>>>>>>, <<12529, <<<<12441, 12537>>>>>>,
       <<12530, <<<<12441, 12538>>>>>>, <<12541, <<<<12441, 12542>>>>>>,
       <<69785, <<<<69818, 69786>>>>>>, <<69787, <<<<69818, 69788>>>>>>,
       <<69797, <<<<69818, 69803>>>>>>, <<69937, <<<<69927, 69934>>>>>>,
       <<69938, <<<<69927, 69935>>>>>>, <<70471, <<<<70462, 70475>>, <<70487, 70476>>>>>>,
       <<70841, <<<<70832, 70844>>, <<70842, 70843>>, <<70845, 70846>>>>>>,
       <<71096, <<<<71087, 71098>>>>>>, <<71097, <<<<71087, 71099>>>>>>,
       <<71989, <<<<71984, 71992>>>>>>
    >>

\* The row of a table sorted by the code point its rows begin with: the last
\* row that begins at or before cp (binary search between lo and hi).
RECURSIVE TableRow(_, _, _, _)
TableRow(table, cp, lo, hi) ==
    IF lo = hi THEN table[lo]
    ELSE IF table[(lo + hi + 1) \div 2][1] <= cp
    THEN TableRow(table, cp, (lo + hi + 1) \div 2, hi)
    ELSE TableRow(table, cp, lo, (lo + hi + 1) \div 2 - 1)

\* The map step on one code point, by its status in IdnaTable: ok is FALSE
\* for a disallowed code point, to are the code points it becomes (itself
\* when valid, none when ignored).
IdnaMapping(cp, ucd) ==
    LET row == TableRow(ucd.idna, cp, 1, Len(ucd.idna)) IN
    CASE row[2] = 0 -> [ok |-> TRUE, to |-> <<cp>>]
      [] row[2] = 1 -> [ok |-> FALSE, to |-> <<>>]
      [] row[2] = 2 -> [ok |-> TRUE, to |-> <<>>]
      [] row[2] = 3 -> [ok |-> TRUE, to |-> row[3]]

\* The map step over the code points of a domain or of a decoded label.
RECURSIVE IdnaMap(_, _, _)
IdnaMap(cps, acc, ucd) ==
    IF cps = <<>> THEN [ok |-> TRUE, to |-> acc]
    ELSE IF ~IdnaMapping(Head(cps), ucd).ok THEN [ok |-> FALSE, to |-> <<>>]
    ELSE IdnaMap(Tail(cps), acc \o IdnaMapping(Head(cps), ucd).to, ucd)

\* Bidi class, mark, joining type, combining class and virama of a code
\* point.
Property(cp, ucd) == TableRow(ucd.property, cp, 1, Len(ucd.property))

\* Normalization to NFC. First the canonical decomposition: a Hangul syllable
\* by arithmetic, any other code point by DecompositionTable.
RECURSIVE decompose(_, _)
decompose(cps, ucd) ==
    LET cp == Head(cps)
        s == cp - 44032
        row == TableRow(ucd.decomposition, cp, 1, Len(ucd.decomposition))
    IN IF cps = <<>> THEN <<>>
       ELSE (IF cp >= 44032 /\ cp <= 55203
             THEN <<4352 + (s \div 588), 4449 + ((s % 588) \div 28)>>
                      \o (IF s % 28 = 0 THEN <<>> ELSE <<4519 + (s % 28)>>)
             ELSE IF row[1] = cp THEN row[2] ELSE <<cp>>)
                \o decompose(Tail(cps), ucd)

\* Then the canonical ordering: a code point of combining class above 0 moves
\* before the code points of greater class that precede it.
RECURSIVE sort_marks(_, _, _)
sort_marks(cps, sorted, ucd) ==
    LET ccc == Property(Head(cps), ucd)[5]
        before == {k \in 0..Len(sorted) :
                       \A j \in (k + 1)..Len(sorted) : Property(sorted[j], ucd)[5] > ccc}
        at == CHOOSE k \in before : \A j \in before : k <= j
    IN IF cps = <<>> THEN sorted
       ELSE IF ccc = 0 THEN sort_marks(Tail(cps), Append(sorted, Head(cps)), ucd)
       ELSE sort_marks(Tail(cps), SubSeq(sorted, 1, at) \o <<Head(cps)>>
                                      \o SubSeq(sorted, at + 1, Len(sorted)), ucd)

\* The primary composite of a and b, 0 when there is none: Hangul by
\* arithmetic, the others by CompositionTable.
compose_pair(a, b, ucd) ==
    LET row == TableRow(ucd.composition, a, 1, Len(ucd.composition))
        found == {k \in 1..Len(row[2]) : row[2][k][1] = b}
    IN IF a >= 4352 /\ a <= 4370 /\ b >= 4449 /\ b <= 4469
       THEN 44032 + ((a - 4352) * 21 + (b - 4449)) * 28
       ELSE IF a >= 44032 /\ a <= 55203 /\ (a - 44032) % 28 = 0 /\ b >= 4520 /\ b <= 4546
       THEN a + (b - 4519)
       ELSE IF row[1] = a /\ found # {} THEN row[2][CHOOSE k \in found : TRUE][2]
       ELSE 0

\* Last the canonical composition: a code point composes with the last
\* starter (at position starter of out, 0: none) when nothing between them
\* blocks it, last being the combining class of the code point before it.
RECURSIVE compose(_, _, _, _, _)
compose(cps, out, starter, last, ucd) ==
    LET cp == Head(cps)
        ccc == Property(cp, ucd)[5]
        composite == IF starter > 0 /\ (starter = Len(out) \/ last < ccc)
                     THEN compose_pair(out[starter], cp, ucd) ELSE 0
    IN IF cps = <<>> THEN out
       ELSE IF composite # 0
       THEN compose(Tail(cps), [out EXCEPT ![starter] = composite], starter, last, ucd)
       ELSE compose(Tail(cps), Append(out, cp),
                    IF ccc = 0 THEN Len(out) + 1 ELSE starter, ccc, ucd)

normalize(cps, ucd) == compose(sort_marks(decompose(cps, ucd), <<>>, ucd), <<>>, 0, 0, ucd)

\* Punycode (RFC 3492) decoding, as the validation of an xn-- label runs it
\* (2147483647 is the greatest 32-bit integer).

PunycodeDigit(cp) ==
    IF cp >= 97 /\ cp <= 122 THEN cp - 97
    ELSE IF cp >= 48 /\ cp <= 57 THEN cp - 48 + 26
    ELSE -1

PunycodeThreshold(k, bias) ==
    IF k <= bias THEN 1 ELSE IF k >= bias + 26 THEN 26 ELSE k - bias

RECURSIVE PunycodeAdaptLoop(_, _)
PunycodeAdaptLoop(delta, k) ==
    IF delta > 455 THEN PunycodeAdaptLoop(delta \div 35, k + 36)
    ELSE k + ((36 * delta) \div (delta + 38))

PunycodeAdapt(delta, numpoints, firsttime) ==
    LET damped == IF firsttime THEN delta \div 700 ELSE delta \div 2 IN
    PunycodeAdaptLoop(damped + (damped \div numpoints), 0)

\* One generalized variable-length integer read from position pos on:
\* <<ok, i, position after it>>.
RECURSIVE PunycodeDelta(_, _, _, _, _, _)
PunycodeDelta(input, pos, at, w, k, bias) ==
    IF pos > Len(input) THEN <<FALSE, 0, pos>>
    ELSE IF PunycodeDigit(input[pos]) < 0 THEN <<FALSE, 0, pos>>
    ELSE IF PunycodeDigit(input[pos]) > (2147483647 - at) \div w THEN <<FALSE, 0, pos>>
    ELSE IF PunycodeDigit(input[pos]) < PunycodeThreshold(k, bias)
    THEN <<TRUE, at + PunycodeDigit(input[pos]) * w, pos + 1>>
    ELSE IF w > 2147483647 \div (36 - PunycodeThreshold(k, bias)) THEN <<FALSE, 0, pos>>
    ELSE PunycodeDelta(input, pos + 1, at + PunycodeDigit(input[pos]) * w,
                       w * (36 - PunycodeThreshold(k, bias)), k + 36, bias)

RECURSIVE PunycodeInsertions(_, _, _, _, _, _)
PunycodeStep(input, delta, n, oldi, bias, out) ==
    LET at == delta[2] % (Len(out) + 1)
        cp == n + (delta[2] \div (Len(out) + 1))
    IN IF ~delta[1] THEN [ok |-> FALSE, value |-> <<>>]
       ELSE IF delta[2] \div (Len(out) + 1) > 2147483647 - n THEN [ok |-> FALSE, value |-> <<>>]
       ELSE PunycodeInsertions(
                input, delta[3], cp, at + 1,
                PunycodeAdapt(delta[2] - oldi, Len(out) + 1, oldi = 0),
                SubSeq(out, 1, at) \o <<cp>> \o SubSeq(out, at + 1, Len(out)))
PunycodeInsertions(input, pos, n, at, bias, out) ==
    IF pos > Len(input) THEN [ok |-> TRUE, value |-> out]
    ELSE PunycodeStep(input, PunycodeDelta(input, pos, at, 1, 36, bias), n, at, bias, out)

\* The code points an xn-- label stands for: the basic code points before the
\* last "-", then the insertions the rest encodes.
punycode_to_utf32(input) ==
    PunycodeInsertions(input, lastIndexOf(input, 45, Len(input)) + 1, 128, 0, 72,
                       SubSeq(input, 1, lastIndexOf(input, 45, Len(input)) - 1))

\* Validity of a label (ada::idna::is_label_valid): it does not begin with a
\* mark; at its first joiner the ContextJ rule decides (after a virama the
\* label is taken; a zero width joiner is valid nowhere else and a zero width
\* non-joiner only with a left- or dual-joining code point before it and a
\* right- or dual-joining one after it); with no joiner the Bidi rule does,
\* for a label that holds a code point of class R, AL or AN: a label whose
\* first code point is of class L holds only L, EN, ES, CS, ET, ON, BN and NSM
\* before its last code point that is not NSM; any other label holds only R,
\* AL, AN, EN, ES, CS, ET, ON, BN and NSM up to that code point, not both EN
\* and AN, and that code point is R, AL, AN or EN.
is_label_valid(label, ucd) ==
    LET direction(k) == Property(label[k], ucd)[2]
        joining(k) == Property(label[k], ucd)[4]
        joiners == {k \in 1..Len(label) : label[k] \in {8204, 8205}}
        joiner == CHOOSE k \in joiners : \A j \in joiners : k <= j
        notNsm == {k \in 1..Len(label) : direction(k) # "NSM"}
        lastNotNsm == CHOOSE k \in notNsm : \A j \in notNsm : j <= k
        Neutral == {"EN", "ES", "CS", "ET", "ON", "BN", "NSM"}
    IN IF label = <<>> THEN TRUE
       ELSE IF Property(label[1], ucd)[3] = 1 THEN FALSE
       ELSE IF joiners # {}
       THEN IF joiner > 1 /\ Property(label[joiner - 1], ucd)[6] = 1 THEN TRUE
            ELSE /\ label[joiner] = 8204
                 /\ joiner > 1
                 /\ joiner < Len(label)
                 /\ \E k \in 1..(joiner - 1) : joining(k) \in {"L", "D"}
                 /\ \E k \in (joiner + 1)..Len(label) : joining(k) \in {"R", "D"}
       ELSE IF notNsm = {} THEN FALSE
       ELSE IF \A k \in 1..Len(label) : direction(k) \notin {"R", "AL", "AN"} THEN TRUE
       ELSE IF direction(1) = "L"
       THEN \A k \in 1..(lastNotNsm - 1) : direction(k) \in {"L"} \cup Neutral
       ELSE /\ \A k \in 1..lastNotNsm : direction(k) \in {"R", "AL", "AN"} \cup Neutral
            /\ ~(/\ \E k \in 1..lastNotNsm : direction(k) = "EN"
                 /\ \E k \in 1..lastNotNsm : direction(k) = "AN")
            /\ direction(lastNotNsm) \in {"R", "AL", "AN", "EN"}

IsAscii(cps) == \A k \in 1..Len(cps) : cps[k] < 128

\* A label of the mapped domain. "xn--" announces Punycode: the label is in
\* ASCII and decodes to code points which the mapping and the normalization
\* leave as they are, at least one, and which make a valid label. Another
\* label in ASCII stands as it is; one outside ASCII must be valid.
ValidLabel(label, ucd) ==
    LET decoded == punycode_to_utf32(SubSeq(label, 5, Len(label))) IN
    IF Len(label) >= 4 /\ SubSeq(label, 1, 4) = <<120, 110, 45, 45>>
    THEN /\ IsAscii(label)
         /\ decoded.ok
         /\ IdnaMap(decoded.value, <<>>, ucd) = [ok |-> TRUE, to |-> decoded.value]
         /\ normalize(decoded.value, ucd) = decoded.value
         /\ decoded.value # <<>>
         /\ is_label_valid(decoded.value, ucd)
    ELSE IsAscii(label) \/ is_label_valid(label, ucd)

\* An ASCII domain after domain-to-ASCII (lower case): no forbidden domain
\* code point, and an IPv4 address when it ends in a number.
ValidAsciiDomain(domain) ==
    /\ domain # <<>>
    /\ \A k \in 1..Len(domain) : domain[k] \notin ForbiddenHost
    /\ EndsInNumber(domain) => ValidIPv4(domain)

\* Domain to ASCII on the mapped and normalized code points, label by label,
\* then the checks of the host parser on its result. A label outside ASCII
\* stands as xn-- and Punycode in the ASCII domain: were the last label a
\* number, the IPv4 parser would fail on the label outside ASCII.
ValidMappedDomain(cps, ucd) ==
    LET labels == split(cps, 46)
        last == DomainParts(labels)[Len(DomainParts(labels))]
        chars(label) == [k \in 1..Len(label) |-> Chr(label[k])]
    IN /\ cps # <<>>
       /\ \A k \in 1..Len(labels) : ValidLabel(labels[k], ucd)
       /\ IF IsAscii(cps) THEN ValidAsciiDomain(chars(cps))
          ELSE /\ \A k \in 1..Len(cps) : cps[k] < 128 => Chr(cps[k]) \notin ForbiddenHost
               /\ IsAscii(last) => ~EndsInNumber(chars(last))

\* The host of a special scheme as percent-decoded bytes. A host in ASCII is
\* put in lower case; any other is decoded from UTF-8, mapped by the IDNA
\* table and normalized. Then domain to ASCII, forbidden domain code points,
\* IPv4.
ValidDomainBytes(bytes, ucd) ==
    LET decoded == Utf8Decode(bytes, <<>>)
        mapped == IdnaMap(decoded.value, <<>>, ucd)
    IN IF IsAscii(bytes)
       THEN ValidMappedDomain([k \in 1..Len(bytes) |->
                                  IF bytes[k] >= 65 /\ bytes[k] <= 90
                                  THEN bytes[k] + 32 ELSE bytes[k]], ucd)
       ELSE /\ decoded.ok
            /\ mapped.ok
            /\ ValidMappedDomain(normalize(mapped.to, ucd), ucd)

\* The host parser for a special scheme.
ValidHost(host, ucd) ==
    IF host = <<>> THEN FALSE
    ELSE IF host[1] = "[" THEN ValidIPv6Literal(host)
    ELSE ValidDomainBytes(HostBytes(host), ucd)

\* Position of the colon before the port: the first ":" of hostport outside
\* square brackets, 0 when there is none.
RECURSIVE PortColon(_, _, _)
PortColon(hostport, k, inside) ==
    IF k > Len(hostport) THEN 0
    ELSE IF hostport[k] = ":" /\ ~inside THEN k
    ELSE PortColon(hostport, k + 1,
                   IF hostport[k] = "[" THEN TRUE
                   ELSE IF hostport[k] = "]" THEN FALSE ELSE inside)

\* The authority after its credentials (all up to the last "@").
AfterCredentials(auth) == SubSeq(auth, lastIndexOf(auth, "@", Len(auth)) + 1, Len(auth))

\* Authority, host and port states for a special scheme: the host after the
\* credentials and before the port must be a valid host, the port a number
\* up to 65535.
ValidAuthority(auth, ucd) ==
    LET hostport == AfterCredentials(auth)
        colon == PortColon(hostport, 1, FALSE)
    IN /\ ValidHost(IF colon = 0 THEN hostport ELSE SubSeq(hostport, 1, colon - 1), ucd)
       /\ colon # 0 => ValidPort(SubSeq(hostport, colon + 1, Len(hostport)))

\* The authority of a URL whose scheme is not special: the opaque-host
\* parser takes an IPv6 literal or a host with no forbidden host code point;
\* the host may be empty when neither credentials nor a port come with it.
ValidOpaqueAuthority(auth) ==
    LET hostport == AfterCredentials(auth)
        colon == PortColon(hostport, 1, FALSE)
        host == IF colon = 0 THEN hostport ELSE SubSeq(hostport, 1, colon - 1)
    IN /\ IF host # <<>> /\ host[1] = "[" THEN ValidIPv6Literal(host)
          ELSE \A k \in 1..Len(host) : host[k] \notin ForbiddenOpaqueHost
       /\ colon # 0 => ValidPort(SubSeq(hostport, colon + 1, Len(hostport)))
       /\ host = <<>> => lastIndexOf(auth, "@", Len(auth)) = 0 /\ colon = 0

FileScheme == <<"f", "i", "l", "e">>

\* A Windows drive letter: a letter followed by ":" or "|".
IsWindowsDriveLetter(seg) == Len(seg) = 2 /\ IsAlpha(seg[1]) /\ seg[2] \in {":", "|"}

\* Characters of the path percent-encode set among printable ASCII (as node 20
\* has it; later runtimes add "^", Chrome "|" as well; the decoded file name
\* is the same).
PathEncodeSet == {" ", "\"", "#", "<", ">", "?", "U+96", "{", "}"}

RECURSIVE PercentBytes(_)
PercentBytes(bytes) ==
    IF bytes = <<>> THEN <<>>
    ELSE <<"%", HexDigitsUpper[(Head(bytes) \div 16) + 1],
           HexDigitsUpper[(Head(bytes) % 16) + 1]>> \o PercentBytes(Tail(bytes))

\* UTF-8 percent-encoding of the code points of s by an encode set that has
\* the C0 controls, everything above "~" and set.
RECURSIVE percentEncodeString(_, _)
percentEncodeString(s, set) ==
    IF s = <<>> THEN <<>>
    ELSE (IF CodePointAt(s)[1] < 32 \/ CodePointAt(s)[1] > 126 \/ s[1] \in set
          THEN PercentBytes(Utf8(CodePointAt(s)[1])) ELSE <<s[1]>>)
             \o percentEncodeString(SubSeq(s, CodePointAt(s)[2] + 1, Len(s)), set)

IsSingleDot(seg) ==
    toLowerCase(seg) \in { <<".">>, <<"%", "2", "e">> }
IsDoubleDot(seg) ==
    toLowerCase(seg) \in { <<".", ".">>, <<".", "%", "2", "e">>,
                           <<"%", "2", "e", ".">>, <<"%", "2", "e", "%", "2", "e">> }

\* Shorten a path: its last segment goes, but for the drive letter of a file
\* URL.
shorten(acc, isFile) ==
    IF acc = <<>> THEN acc
    ELSE IF isFile /\ Len(acc) = 1 /\ Len(acc[1]) >= 2
                   /\ IsAlpha(acc[1][1]) /\ acc[1][2] = ":" THEN acc
    ELSE SubSeq(acc, 1, Len(acc) - 1)

\* The path state of the URL parser over the raw segments of a path that is
\* not taken as written: the segments are
\* percent-encoded, a drive letter at the head of a file path gets its ":",
\* dot segments are resolved. A double-dot segment shortens the path; when it
\* is the last one the empty segment follows, which a scheme that is neither
\* special nor file gets only when the shortening took a segment away.
RECURSIVE pathSegments(_, _, _, _)
pathSegments(raw, acc, isFile, special) ==
    IF raw = <<>> THEN acc
    ELSE IF IsDoubleDot(Head(raw))
    THEN pathSegments(Tail(raw),
                      IF Len(raw) = 1 /\ (special \/ shorten(acc, isFile) # acc)
                      THEN Append(shorten(acc, isFile), <<>>)
                      ELSE shorten(acc, isFile),
                      isFile, special)
    ELSE IF IsSingleDot(Head(raw))
    THEN pathSegments(Tail(raw), IF Len(raw) = 1 THEN Append(acc, <<>>) ELSE acc,
                      isFile, special)
    ELSE pathSegments(Tail(raw),
                      Append(acc, IF isFile /\ acc = <<>> /\ IsWindowsDriveLetter(Head(raw))
                                  THEN <<Head(raw)[1], ":">>
                                  ELSE percentEncodeString(Head(raw), PathEncodeSet)),
                      isFile, special)

\* The characters that count as a slash after the scheme: "/" and, for the
\* special schemes and file, "\".
Slashes(scheme) ==
    IF scheme \in SpecialSchemes \/ scheme = FileScheme THEN {"/", "\\"} ELSE {"/"}

\* Host parsing by the kind of the scheme.
AuthorityOk(scheme, authority, ucd) ==
    IF scheme \in SpecialSchemes THEN ValidAuthority(authority, ucd)
    ELSE IF scheme = FileScheme THEN authority = <<>> \/ ValidHost(authority, ucd)
    ELSE ValidOpaqueAuthority(authority)

\* The characters of s from position from up to the query or fragment.
RawPath(s, from) == SubSeq(s, from, firstOf(s, {"?", "#"}, from) - 1)

\* The signature of a path: 1 when a character of it is percent-encoded in a
\* path, 2 for a "\", 4 for a ".", 8 for a "%".
path_signature(input) ==
    (IF \E k \in 1..Len(input) : \/ Ord(input[k]) < 32
                                 \/ Ord(input[k]) > 126
                                 \/ input[k] \in PathEncodeSet
     THEN 1 ELSE 0)
        + (IF \E k \in 1..Len(input) : input[k] = "\\" THEN 2 ELSE 0)
        + (IF \E k \in 1..Len(input) : input[k] = "." THEN 4 ELSE 0)
        + (IF \E k \in 1..Len(input) : input[k] = "%" THEN 8 ELSE 0)

\* Whether the path after its first slash is taken as it is written. It is
\* when nothing in it has to be looked at (for a special scheme no dot, "\",
\* "%" or character to encode; for another scheme no dot, "%" or character to
\* encode), and also when dots are all there is to look at, the path does not
\* begin with one and its first "/." is followed by a character other than
\* "." and "/": a dot segment further on then stays in the path. A file path
\* that begins with a drive letter is never taken as written.
trivial_path(input, special, isFile) ==
    LET slashdots == {k \in 1..(Len(input) - 1) : input[k] = "/" /\ input[k + 1] = "."}
        slashdot == CHOOSE k \in slashdots : \A j \in slashdots : k <= j
    IN /\ ~(/\ isFile
            /\ Len(input) >= 2
            /\ IsWindowsDriveLetter(SubSeq(input, 1, 2))
            /\ (Len(input) = 2 \/ input[3] \in {"/", "\\", "?", "#"}))
       /\ IF path_signature(input) = 4 /\ input[1] # "."
          THEN \/ slashdots = {}
               \/ slashdot + 2 <= Len(input) /\ input[slashdot + 2] \notin {".", "/"}
          ELSE IF special THEN path_signature(input) = 0
          ELSE path_signature(input) \in {0, 2}

\* urlObj.pathname: an opaque path percent-encoded by the C0 control set; the
\* empty path of a scheme that is neither special nor file stays empty; a
\* trivial path is taken as written; any other path is its segments (what
\* "/" and, for the special schemes and file, "\" separate), each after a
\* "/".
Pathname(rawPath, opaque, mayBeEmpty, isFile) ==
    LET input == IF rawPath # <<>> /\ (rawPath[1] = "/" \/ (~mayBeEmpty /\ rawPath[1] = "\\"))
                 THEN Tail(rawPath) ELSE rawPath
        segments == pathSegments(split([k \in 1..Len(input) |->
                                           IF ~mayBeEmpty /\ input[k] = "\\"
                                           THEN "/" ELSE input[k]], "/"),
                                 <<>>, isFile, ~mayBeEmpty)
    IN IF opaque THEN percentEncodeString(rawPath, {})
       ELSE IF rawPath = <<>> /\ mayBeEmpty THEN <<>>
       ELSE IF trivial_path(input, ~mayBeEmpty, isFile) THEN <<"/">> \o input
       ELSE IF segments = <<>> THEN <<>>
       ELSE <<"/">> \o join(segments, "/")

PathnameFrom(s, scheme, opaque, from) ==
    Pathname(RawPath(s, from), opaque,
             scheme \notin SpecialSchemes /\ scheme # FileScheme, scheme = FileScheme)

\* The URL parser from the authority on: the authority runs from authStart to
\* authEnd - 1 and the path starts at authEnd. What stands in the place of the
\* host of a file URL may be a Windows drive letter: the path starts with it.
ParseAuthorityAndPath(s, scheme, hasAuthority, opaque, authStart, authEnd, ucd) ==
    IF scheme = FileScheme /\ hasAuthority
           /\ IsWindowsDriveLetter(SubSeq(s, authStart, authEnd - 1))
    THEN [ok |-> TRUE, pathname |-> PathnameFrom(s, scheme, opaque, authStart)]
    ELSE IF ~AuthorityOk(scheme, IF hasAuthority THEN SubSeq(s, authStart, authEnd - 1)
                                 ELSE <<>>, ucd)
    THEN [ok |-> FALSE, pathname |-> <<>>]
    ELSE [ok |-> TRUE, pathname |-> PathnameFrom(s, scheme, opaque, authEnd)]

\* The URL parser after the scheme, whose colon is at position colon. A special
\* scheme (http, https, ftp, ws, wss) takes every "/" and "\" after the colon
\* as the start of its authority; file and the other schemes have an authority
\* only after two slashes; a scheme that is not special and is followed by no
\* slash has an opaque path.
ParseAfterScheme(s, colon, scheme, slashes, ucd) ==
    LET special == scheme \in SpecialSchemes
        slash1 == colon + 1 <= Len(s) /\ s[colon + 1] \in slashes
        slash2 == slash1 /\ colon + 2 <= Len(s) /\ s[colon + 2] \in slashes
        authStart == IF special THEN firstNotOf(s, {"/", "\\"}, colon + 1) ELSE colon + 3
    IN ParseAuthorityAndPath(
           s, scheme, special \/ slash2,
           ~special /\ scheme # FileScheme /\ ~slash1,
           authStart,
           IF special \/ slash2 THEN firstOf(s, slashes \cup {"?", "#"}, authStart)
           ELSE colon + 1, ucd)

\* The URL parser on the input stripped of C0 control or space at its ends and of
\* tabs and newlines, whose first colon is at position colon (0: none).
ParseScheme(s, colon, ucd) ==
    LET scheme == IF colon = 0 THEN <<>> ELSE toLowerCase(SubSeq(s, 1, colon - 1)) IN
    IF colon = 0 \/ ~ValidScheme(scheme)
    THEN [ok |-> FALSE, pathname |-> <<>>]
    ELSE ParseAfterScheme(s, colon, scheme, Slashes(scheme), ucd)

\* new URL(url) with no base: [ok |-> FALSE] is the TypeError of an invalid
\* URL. The parser runs on the input stripped of C0 control or space at its
\* ends and of tabs and newlines, with the Unicode data it is built with (the
\* operators that look a code point up take it as ucd).
URL(url) ==
    LET s == removeTabNewline(stripTrailing(stripLeading(url, C0ControlOrSpace),
                                            C0ControlOrSpace))
    IN ParseScheme(s, indexOf(s, ":", 1),
                   [idna |-> IdnaTable, property |-> PropertyTable,
                    decomposition |-> DecompositionTable,
                    composition |-> CompositionTable])

DefaultFileName == <<"d", "o", "c", "u", "m", "e", "n", "t", ".", "p", "d", "f">>

\* pathname.substring(pathname.lastIndexOf('/') + 1)
fileName(pathname) ==
    SubSeq(pathname, lastIndexOf(pathname, "/", Len(pathname)) + 1, Len(pathname))

\* fileName.split('?')[0].split('#')[0]
cleanFileName(name) == split(split(name, "?")[1], "#")[1]

\* decodeURIComponent(cleanFileName) || 'document.pdf', and the catch
orDefault(decoded) ==
    IF ~decoded.ok THEN DefaultFileName
    ELSE IF decoded.value = <<>> THEN DefaultFileName
    ELSE decoded.value

\* The body of getFileNameFromUrl after new URL(url).
nameOf(urlObj) ==
    IF ~urlObj.ok THEN DefaultFileName
    ELSE orDefault(decodeURIComponent(cleanFileName(fileName(urlObj.pathname))))

\* The name cut out of the string itself, not out of the pathname of the
\* parsed URL.
getFileNameFromString(url) == orDefault(decodeURIComponent(cleanFileName(fileName(url))))

getFileNameFromUrl(url) == nameOf(URL(url))

-----------------------------------------------------------------------------
(* getFileNameFromUrl on its own: the URLs it is applied to *)

\* Scheme and authority of the absolute URLs.
UrlPrefixes ==
    { <<"h", "t", "t", "p", "s", ":", "/", "/", "h", "o", "s", "t">>,
      <<"h", "t", "t", "p", ":", "/", "/", "h", ":", "8", "0">>,
      <<"H", "T", "T", "P", "S", ":", "/", "/", "U", "@", "H">>,
      <<"f", "t", "p", ":", "/", "/", "h">>,
      <<"f", "o", "o", ":", "/", "/", "h">>,
      <<"h", "t", "t", "p", ":", "/", "/", "1", "2", "3", "4">>,
      <<"h", "t", "t", "p", ":", "/", "/", "[", ":", ":", "1", "]", ":", "0", "0", "0", "0", "8", "0">>,
      <<"h", "t", "t", "p", "s", ":", "/", "/", "b", "U+252", "c", "h", "e", "r", ".", "x", "n", "-", "-", "9", "c", "a">>,
      <<"h", "t", "t", "p", ":", "/", "/", "x", "n", "-", "-", "a", "-">>,
      <<"h", "t", "t", "p", ":", "/", "/", "U+1488", "U+1489">>,
      <<"h", "t", "t", "p", ":", "/", "/", "U+256", "U+64257", "U+9312">>,
      <<"h", "t", "t", "p", ":", "/", "/", "x", "-", "U+1565", "-", "x">>,
      <<"h", "t", "t", "p", ":", "/", "/", "a", ".", "U+2200">> }

\* The path up to the last segment.
UrlDirs ==
    { <<"/">>,
      <<"/", "p", "a", "t", "h", "/">>,
      <<"/", "a", "/", ".", "/", ".", ".", "/", "b", "/">> }

\* The last path segment as written in the URL.
UrlLastSegments ==
    { <<"r", "e", "p", "o", "r", "t", ".", "p", "d", "f">>,
      <<"a", "%", "2", "0", "b", ".", "p", "d", "f">>,
      <<"%", "2", "0", "n", "a", "m", "e", ".", "p", "d", "f">>,
      <<"a", " ", "b", ".", "p", "d", "f">>,
      <<"x", "%", "2", "F", "y", ".", "p", "d", "f">>,
      <<"%", "C", "3", "%", "A", "9", ".", "p", "d", "f">>,
      <<"a", "%", "3", "F", "b", "%", "2", "3", "c">>,
      <<>>,
      <<"%", "z", "z">>,
      <<"1", "0", "0", "%", ".", "p", "d", "f">>,
      <<"%", "C", "3", ".", "p", "d", "f">>,
      <<"U+233", ".", "p", "d", "f">> }

\* Query and fragment, or control characters the URL parser strips.
UrlSuffixes ==
    { <<>>,
      <<"?", "x", "=", "1">>,
      <<"#", "y">>,
      <<"?", "x", "=", "1", "#", "y">>,
      <<"?", "u", "=", "/", "b", "/", "c", ".", "t", "x", "t">>,
      <<"#", "/", "f", "/", "g">>,
      <<"U+1", " ">> }

\* Strings new URL throws on.
MalformedUrls ==
    { <<"n", "o", "t", "-", "a", "-", "u", "r", "l">>,
      <<>>,
      <<"h", "t", "t", "p", "s", ":", "/", "/">>,
      <<"h", "t", "t", "p", "s", ":", "/", "/", "a", " ", "b", "/", "x", ".", "p", "d", "f">>,
      <<"/", "/", "h", "o", "s", "t", "/", "x", ".", "p", "d", "f">>,
      <<"/", "j", "u", "s", "t", "/", "a", "/", "p", "a", "t", "h", ".", "p", "d", "f">>,
      <<"1", "t", "t", "p", ":", "/", "/", "h", "/", "x", ".", "p", "d", "f">>,
      <<"h", "t", "t", "p", ":", "/", "/", "0", "9", "/", "x", ".", "p", "d", "f">>,
      <<"h", "t", "t", "p", ":", "/", "/", "h", "U+127", "/", "x", ".", "p", "d", "f">>,
      <<"U+160", "h", "t", "t", "p", ":", "/", "/", "h", "/", "x", ".", "p", "d", "f">>,
      <<"h", "t", "t", "p", ":", "/", "/", "%", "f", "f", "/", "x", ".", "p", "d", "f">>,
      <<"h", "t", "t", "p", "s", ":", "/", "/", "x", "n", "-", "-", "/", "a", ".", "p", "d", "f">>,
      <<"h", "t", "t", "p", "s", ":", "/", "/", "U+233", "<", "/", "x", ".", "p", "d", "f">>,
      <<"h", "t", "t", "p", ":", "/", "/", "U+1488", "a", "/", "x", ".", "p", "d", "f">>,
      <<"h", "t", "t", "p", ":", "/", "/", "U+888", "/", "x", ".", "p", "d", "f">>,
      <<"h", "t", "t", "p", ":", "/", "/", "U+1155", "a", "/", "x", ".", "p", "d", "f">>,
      <<"h", "t", "t", "p", ":", "/", "/", "U+9352", "/", "x", ".", "p", "d", "f">>,
      <<"h", "t", "t", "p", ":", "/", "/", "a", "U+8205", "/", "x", ".", "p", "d", "f">>,
      <<"h", "t", "t", "p", ":", "/", "/", "U+55418", "U+57328", "/", "x", ".", "p", "d", "f">>,
      <<"h", "t", "t", "p", ":", "/", "/", "U+1895", "U+8204", "U+1576", "/", "x", ".", "p", "d", "f">>,
      <<"h", "t", "t", "p", ":", "/", "/", "x", "U+5909", "U+8205", "/", "x", ".", "p", "d", "f">>,
      <<"h", "t", "t", "p", ":", "/", "/", "U+1488", "U+2200", "/", "x", ".", "p", "d", "f">>,
      <<"h", "t", "t", "p", ":", "/", "/", "x", "n", "-", "-", "8", "g", "0", "n", "/", "x", ".", "p", "d", "f">> }

\* URLs whose path the parser takes as written, the dot segment at its end
\* with it.
DotSegmentUrls ==
    { <<"h", "t", "t", "p", "s", ":", "/", "/", "h", "/", "a", "/", ".", "b", "/", ".", ".">>,
      <<"h", "t", "t", "p", "s", ":", "/", "/", "h", "/", "a", "/", ".", "b", "/", ".">> }

AssembleUrl(prefix, dir, segment, suffix) == prefix \o dir \o segment \o suffix

NameInputs ==
    {AssembleUrl(p, d, g, x) : p \in UrlPrefixes, d \in UrlDirs,
                               g \in UrlLastSegments, x \in UrlSuffixes}
        \cup MalformedUrls \cup DotSegmentUrls

-----------------------------------------------------------------------------
(* Inputs the environment supplies *)

UrlA == HTTPS_PREFIX \o <<"a", "/", "x", ".", "p", "d", "f">>
UrlB == HTTPS_PREFIX \o <<"b", "/", "y", ".", "p", "d", "f">>
NotAUrl == <<"n", "o", "t", "-", "a", "-", "u", "r", "l">>
\* UrlB with white space around it
UrlPadded == <<" ", "U+160">> \o UrlB \o <<"\f", "\t">>
UrlFtp == <<"f", "t", "p", ":", "/", "/", "d", "/", "z">>
UrlUpper == <<"H", "T", "T", "P", "S", ":", "/", "/", "e", "/", "q">>

\* What the user may type into the textarea.
TextareaInputs ==
    { join(<<UrlA, NotAUrl, UrlB>>, "\n"),
      join(<<UrlFtp, UrlPadded, <<" ">>, UrlUpper>>, "\n") }

\* A spreadsheet cell as sheet_to_json returns it.
StringCell(s) == [type |-> "string", value |-> s]
NumberCell == [type |-> "number", value |-> <<>>]
UndefinedCell == [type |-> "undefined", value |-> <<>>]

\* Files the user may pick: whether XLSX.read parses them, and the rows of the
\* first sheet.
FilePadded ==
    [parses |-> TRUE,
     data |-> << <<StringCell(UrlPadded)>>, <<NumberCell>>, <<>>,
                 <<StringCell(NotAUrl), StringCell(UrlA)>> >>]
FileRejected ==
    [parses |-> TRUE, data |-> << <<StringCell(UrlFtp)>>, <<StringCell(<<>>)>> >>]
FileCorrupt == [parses |-> FALSE, data |-> <<>>]
Files == {FilePadded, FileRejected, FileCorrupt}

\* response.status values the fetch collaborator may answer with.
StatusCodes == {200, 299, 404}
\* Messages of the errors fetch and response.blob() reject with.
TransportErrors == {"Failed to fetch"}
\* Messages of the errors getPageCount rejects with.
InspectorErrors == {"Invalid PDF structure."}
\* pdf.numPages values.
PageCounts == {1, 2}

-----------------------------------------------------------------------------
(* The registry *)

\* row[0] of a sheet row
FirstCell(row) == IF row = <<>> THEN UndefinedCell ELSE row[1]

\* Variant of validUrls that tests the prefix on the raw input (no trim).
validUrlsNoTrim(urls) ==
    SelectSeq(urls,
              LAMBDA u : u # <<>> /\ (startsWith(u, HTTP_PREFIX) \/ startsWith(u, HTTPS_PREFIX)))

\* processUrls, lines 15-17: trim every input, keep those with an allowed
\* scheme prefix.
validUrls(urls) ==
    SelectSeq([k \in 1..Len(urls) |-> trim(urls[k])],
              LAMBDA u : u # <<>> /\ (startsWith(u, HTTP_PREFIX) \/ startsWith(u, HTTPS_PREFIX)))

\* processUrls, lines 21-26: one Idle task per valid URL; uuidv4 hands out the
\* ids base+1, base+2, ...
newTasks(valid, base) ==
    [k \in 1..Len(valid) |->
        [id |-> base + k,
         url |-> valid[k],
         fileName |-> getFileNameFromUrl(valid[k]),
         status |-> IDLE,
         pageCount |-> Undefined,
         error |-> Undefined]]

\* The new tasks put in front of the registry instead of behind it.
prependTasks(prev, new) == new \o prev

\* setTasks(prev => [...prev, ...newTasks])
appendTasks(prev, new) == prev \o new

\* processUrls(urls) as a state change of the registry.
processUrls(urls) ==
    LET valid == validUrls(urls) IN
    IF Len(valid) = 0
    THEN UNCHANGED <<tasks, nextId>>
    ELSE /\ nextId + Len(valid) <= MaxIds
         /\ tasks' = appendTasks(tasks, newTasks(valid, nextId))
         /\ nextId' = nextId + Len(valid)

\* The id taken for a position of the registry.
removeAt(prev, id) ==
    IF id \in 1..Len(prev)
    THEN SubSeq(prev, 1, id - 1) \o SubSeq(prev, id + 1, Len(prev))
    ELSE prev

\* removeTask: prev.filter(t => t.id !== id)
removeFrom(prev, id) == SelectSeq(prev, LAMBDA t : t.id # id)

\* The cell without the 'Error' branch: every task without a page count is "Pending".
PageCountCellNoError(t) ==
    IF t.pageCount # Undefined THEN [type |-> "number", value |-> t.pageCount[1]]
    ELSE [type |-> "string", value |-> "Pending"]

\* exportToExcel, lines 102-106
PageCountCell(t) ==
    IF t.pageCount # Undefined THEN [type |-> "number", value |-> t.pageCount[1]]
    ELSE IF t.status = FAILED THEN [type |-> "string", value |-> "Error"]
    ELSE [type |-> "string", value |-> "Pending"]

exportRows(ts) ==
    [k \in 1..Len(ts) |->
        [FileName |-> ts[k].fileName, URL |-> ts[k].url, PageCount |-> PageCountCell(ts[k])]]

NoExport == [written |-> FALSE, rows |-> <<>>]

HasStatus(ts, S) == \E k \in 1..Len(ts) : ts[k].status \in S

-----------------------------------------------------------------------------
(* runTasks *)

\* Variants of the updater functions: the error is kept on a retry, the page
\* count is not recorded, the status is not set on a failure.
toDownloadingKeepsError(t) == [t EXCEPT !.status = DOWNLOADING]
toCompletedNoCount(t, pageCount) == [t EXCEPT !.status = COMPLETED]
toFailedKeepsStatus(t, message) == [t EXCEPT !.error = Some(message)]

\* Variants of the updater functions: the update to Analyzing builds the task
\* anew from its id and status alone; the failure is recorded with a fixed text.
toAnalyzingNoSpread(t) ==
    [id |-> t.id, url |-> <<>>, fileName |-> <<>>, status |-> ANALYZING,
     pageCount |-> Undefined, error |-> Undefined]
toFailedGeneric(t, message) == [t EXCEPT !.status = FAILED, !.error = Some("Error")]

\* The updater functions of lines 82, 89, 92 and 94.
toDownloading(t) == [t EXCEPT !.status = DOWNLOADING, !.error = Undefined]
toAnalyzing(t) == [t EXCEPT !.status = ANALYZING]
toCompleted(t, pageCount) == [t EXCEPT !.status = COMPLETED, !.pageCount = Some(pageCount)]
toFailed(t, message) == [t EXCEPT !.status = FAILED, !.error = Some(message)]

\* Variants of the mapped updates: the id test is dropped, or the update is
\* not made at all.
downloadingAll(prev, id) ==
    [k \in 1..Len(prev) |-> [prev[k] EXCEPT !.status = DOWNLOADING, !.error = Undefined]]
analyzingSkipped(prev, id) == prev
failedAll(prev, id, message) ==
    [k \in 1..Len(prev) |-> [prev[k] EXCEPT !.status = FAILED, !.error = Some(message)]]

\* prev.map(t => t.id === id ? next : t), with next the updated copy of t
downloading(prev, id) ==
    [k \in 1..Len(prev) |-> IF prev[k].id = id THEN toDownloading(prev[k]) ELSE prev[k]]
analyzing(prev, id) ==
    [k \in 1..Len(prev) |-> IF prev[k].id = id THEN toAnalyzing(prev[k]) ELSE prev[k]]
completed(prev, id, pageCount) ==
    [k \in 1..Len(prev) |->
        IF prev[k].id = id THEN toCompleted(prev[k], pageCount) ELSE prev[k]]
failed(prev, id, message) ==
    [k \in 1..Len(prev) |->
        IF prev[k].id = id THEN toFailed(prev[k], message) ELSE prev[k]]

\* Only 200 counts as success.
okOnly200(status) == status = 200

\* response.ok
ok(status) == status >= 200 /\ status <= 299

\* line 86
HttpError(status) == "HTTP " \o ToString(status) \o ": Failed to download"

\* Variants of the loop's choice of the next task: Completed tasks are not
\* skipped; the loop walks the snapshot from its end.
nextIndexNoSkip(snapshot, from) == from
nextIndexBackwards(snapshot, from) ==
    LET rest == {k \in from..Len(snapshot) : snapshot[k].status # COMPLETED} IN
    IF rest = {} THEN Len(snapshot) + 1
    ELSE CHOOSE k \in rest : \A m \in rest : m <= k

\* line 80: the first index at or after from whose snapshot task is not
\* skipped, Len(snapshot)+1 when the loop runs out.
RECURSIVE nextIndex(_, _)
nextIndex(snapshot, from) ==
    IF from > Len(snapshot) THEN from
    ELSE IF snapshot[from].status = COMPLETED THEN nextIndex(snapshot, from + 1)
    ELSE from

\* The loop of lines 78-98 from index `from` up to its next await, with
\* registry ts and snapshot as they stand: either it starts the next task that
\* is not skipped (line 82, then the fetch of line 85) or it leaves the loop
\* (line 98).
Continue(ts, snapshot, from, calls, inspections) ==
    LET k == nextIndex(snapshot, from) IN
    IF k <= Len(snapshot)
    THEN /\ tasks' = downloading(ts, snapshot[k].id)
         /\ tasksToProcess' = snapshot
         /\ i' = k
         /\ pc' = "fetch"
         /\ fetched' = Append(calls, snapshot[k].id)
         /\ inspected' = inspections
         /\ isProcessing' = TRUE
    ELSE /\ tasks' = ts
         /\ tasksToProcess' = <<>>
         /\ i' = 0
         /\ pc' = "idle"
         /\ fetched' = <<>>
         /\ inspected' = <<>>
         /\ isProcessing' = FALSE

\* The task the runner is working on.
task == tasksToProcess[i]

\* Variant of the catch block that leaves the loop after a failure.
CatchAborts(message) ==
    /\ tasks' = [k \in 1..Len(tasks) |->
                    IF tasks[k].id = tasksToProcess[i].id
                    THEN [tasks[k] EXCEPT !.status = FAILED, !.error = Some(message)]
                    ELSE tasks[k]]
    /\ tasksToProcess' = <<>>
    /\ i' = 0
    /\ pc' = "idle"
    /\ fetched' = <<>>
    /\ inspected' = <<>>
    /\ isProcessing' = FALSE

\* Variant of the catch block that tries the failed task again.
CatchRetries(message) ==
    Continue(failed(tasks, task.id, message), tasksToProcess, i, fetched, inspected)

\* The catch block of lines 93-95, then the loop goes on.
Catch(message) ==
    Continue(failed(tasks, task.id, message), tasksToProcess, i + 1, fetched, inspected)

-----------------------------------------------------------------------------
(* Initial state: the component as first rendered *)

Init ==
    /\ tasks = <<>>
    /\ isProcessing = FALSE
    /\ urlInput = <<>>
    /\ readers = <<>>
    /\ pc = "idle"
    /\ tasksToProcess = <<>>
    /\ i = 0
    /\ nextId = 0
    /\ fetched = <<>>
    /\ inspected = <<>>
    /\ exportData = NoExport

runner == <<pc, tasksToProcess, i, fetched, inspected>>

-----------------------------------------------------------------------------
(* Handlers of the user interface *)

\* The textarea's onChange (line 212); the textarea is never disabled.
SetUrlInput ==
    \E v \in TextareaInputs :
        /\ urlInput' = v
        /\ exportData' = NoExport
        /\ UNCHANGED <<tasks, isProcessing, readers, nextId, runner>>

\* "Add Links to Queue" (lines 31-35), disabled={!urlInput.trim() || isProcessing}
AddFromTextarea ==
    /\ trim(urlInput) # <<>>
    /\ ~isProcessing
    /\ processUrls(split(urlInput, "\n"))
    /\ urlInput' = <<>>
    /\ exportData' = NoExport
    /\ UNCHANGED <<isProcessing, readers, runner>>

\* "Choose Excel File" is disabled={isProcessing}; the file input's onChange
\* (lines 37-41, 59) starts a FileReader whose onload runs later.
HandleExcelUpload ==
    /\ ~isProcessing
    /\ \/ \E file \in Files :
            /\ Len(readers) < MaxReaders
            /\ readers' = Append(readers, file)
       \/ readers' = readers      \* no file chosen: line 39 returns
    /\ exportData' = NoExport
    /\ UNCHANGED <<tasks, isProcessing, urlInput, nextId, runner>>

\* reader.onload (lines 42-58), whenever the load completes: also during a run.
ReaderOnload ==
    \E k \in 1..Len(readers) :
        LET file == readers[k]
            cells == [r \in 1..Len(file.data) |-> FirstCell(file.data[r])]
            strings == SelectSeq(cells, LAMBDA cell : cell.type = "string")
            urls == [r \in 1..Len(strings) |-> strings[r].value]
        IN
        /\ IF file.parses
           THEN processUrls(urls)
           ELSE UNCHANGED <<tasks, nextId>>     \* catch: console.error and alert
        /\ readers' = SubSeq(readers, 1, k - 1) \o SubSeq(readers, k + 1, Len(readers))
        /\ exportData' = NoExport
        /\ UNCHANGED <<isProcessing, urlInput, runner>>

\* The remove button without its disabled attribute.
RemoveTaskAnytime ==
    /\ \E k \in 1..Len(tasks) : tasks' = removeFrom(tasks, tasks[k].id)
    /\ exportData' = NoExport
    /\ UNCHANGED <<isProcessing, urlInput, readers, nextId, runner>>

\* The remove button of a rendered task (lines 62-64, 283-289), disabled={isProcessing}
RemoveTask ==
    /\ ~isProcessing
    /\ \E k \in 1..Len(tasks) : tasks' = removeFrom(tasks, tasks[k].id)
    /\ exportData' = NoExport
    /\ UNCHANGED <<isProcessing, urlInput, readers, nextId, runner>>

\* "Clear All" (lines 66-70, 147-155), rendered when tasks.length > 0,
\* disabled={isProcessing}; window.confirm answers either way.
ClearAll ==
    /\ Len(tasks) > 0
    /\ ~isProcessing
    /\ \E confirm \in BOOLEAN : tasks' = IF confirm THEN <<>> ELSE tasks
    /\ exportData' = NoExport
    /\ UNCHANGED <<isProcessing, urlInput, readers, nextId, runner>>

\* "Export Results" (lines 101-119, 157-165), rendered when some task is
\* Completed or Failed; never disabled.
ExportToExcel ==
    /\ HasStatus(tasks, {COMPLETED, FAILED})
    /\ exportData' = [written |-> TRUE, rows |-> exportRows(tasks)]
    /\ UNCHANGED <<tasks, isProcessing, urlInput, readers, nextId, runner>>

\* The run button without its disabled attribute.
RunTasksAnytime ==
    /\ HasStatus(tasks, {IDLE, FAILED})
    /\ Continue(tasks, tasks, 1, <<>>, <<>>)
    /\ exportData' = NoExport
    /\ UNCHANGED <<urlInput, readers, nextId>>

\* "Run Analysis" (lines 72-85, 166-175), rendered when some task is Idle or
\* Failed, disabled={isProcessing}: runTasks up to its first await.
RunTasks ==
    /\ HasStatus(tasks, {IDLE, FAILED})
    /\ ~isProcessing
    /\ Continue(tasks, tasks, 1, <<>>, <<>>)
    /\ exportData' = NoExport
    /\ UNCHANGED <<urlInput, readers, nextId>>

-----------------------------------------------------------------------------
(* Continuations of runTasks after each await *)

\* fetch resolves with a response (lines 85-87)
FetchResolved ==
    /\ pc = "fetch"
    /\ \E status \in StatusCodes :
          IF ok(status)
          THEN /\ pc' = "blob"
               /\ UNCHANGED <<tasks, isProcessing, tasksToProcess, i, fetched, inspected>>
          ELSE Catch(HttpError(status))
    /\ exportData' = NoExport
    /\ UNCHANGED <<urlInput, readers, nextId>>

\* fetch rejects (lines 85, 93-95)
FetchRejected ==
    /\ pc = "fetch"
    /\ \E message \in TransportErrors : Catch(message)
    /\ exportData' = NoExport
    /\ UNCHANGED <<urlInput, readers, nextId>>

\* response.blob() resolves (lines 87-90)
BlobResolved ==
    /\ pc = "blob"
    /\ tasks' = analyzing(tasks, task.id)
    /\ inspected' = Append(inspected, task.id)
    /\ pc' = "inspect"
    /\ exportData' = NoExport
    /\ UNCHANGED <<isProcessing, urlInput, readers, nextId, tasksToProcess, i, fetched>>

\* response.blob() rejects (lines 87, 93-95)
BlobRejected ==
    /\ pc = "blob"
    /\ \E message \in TransportErrors : Catch(message)
    /\ exportData' = NoExport
    /\ UNCHANGED <<urlInput, readers, nextId>>

\* getPageCount resolves (lines 90-92), then the loop goes on
InspectResolved ==
    /\ pc = "inspect"
    /\ \E pageCount \in PageCounts :
          Continue(completed(tasks, task.id, pageCount), tasksToProcess, i + 1,
                   fetched, inspected)
    /\ exportData' = NoExport
    /\ UNCHANGED <<urlInput, readers, nextId>>

\* getPageCount rejects (lines 90, 93-95)
InspectRejected ==
    /\ pc = "inspect"
    /\ \E message \in InspectorErrors : Catch(message)
    /\ exportData' = NoExport
    /\ UNCHANGED <<urlInput, readers, nextId>>

Next ==
    \/ SetUrlInput
    \/ AddFromTextarea
    \/ HandleExcelUpload
    \/ ReaderOnload
    \/ RemoveTask
    \/ ClearAll
    \/ ExportToExcel
    \/ RunTasks
    \/ FetchResolved
    \/ FetchRejected
    \/ BlobResolved
    \/ BlobRejected
    \/ InspectResolved
    \/ InspectRejected

Spec == Init /\ [][Next]_vars

\* The continuations of runTasks: the steps taken when an awaited promise
\* settles.
Settle ==
    \/ FetchResolved
    \/ FetchRejected
    \/ BlobResolved
    \/ BlobRejected
    \/ InspectResolved
    \/ InspectRejected

\* Every awaited promise (fetch, response.blob(), getPageCount) eventually
\* settles, and its continuation then runs.
FairSpec == Spec /\ WF_vars(Settle)

-----------------------------------------------------------------------------
(* getFileNameFromUrl on its own *)

\* The function is given one of the inputs.
NameInit ==
    /\ urlInput \in NameInputs
    /\ tasks = <<>>
    /\ isProcessing = FALSE
    /\ readers = <<>>
    /\ pc = "idle"
    /\ tasksToProcess = <<>>
    /\ i = 0
    /\ nextId = 0
    /\ fetched = <<>>
    /\ inspected = <<>>
    /\ exportData = NoExport

\* The task made of the input as lines 21-26 make it: its file name is
\* getFileNameFromUrl of the input.
GetFileName ==
    /\ tasks = <<>>
    /\ tasks' = newTasks(<<urlInput>>, nextId)
    /\ nextId' = nextId + 1
    /\ UNCHANGED <<isProcessing, urlInput, readers, runner, exportData>>

NameNext == GetFileName

NameSpec == NameInit /\ [][NameNext]_vars

-----------------------------------------------------------------------------
(* Vocabulary of the properties *)

Ids(ts) == {ts[k].id : k \in 1..Len(ts)}

\* The record of the task with this id in ts (ids are unique).
TaskOf(ts, id) == ts[CHOOSE k \in 1..Len(ts) : ts[k].id = id]

InFlight(ts) == {k \in 1..Len(ts) : ts[k].status \in {DOWNLOADING, ANALYZING}}
Terminal == {COMPLETED, FAILED}

InSeq(s, x) == \E k \in 1..Len(s) : s[k] = x

\* Positions of the snapshot the run has to process: not Completed at run start.
Eligible(snapshot) == {k \in 1..Len(snapshot) : snapshot[k].status # COMPLETED}

\* The step on which the runner signals "not running".
RunEnds == isProcessing /\ ~isProcessing'

-----------------------------------------------------------------------------
(* C1: in every reachable state at most one task of the registry is         *)
(* Downloading or Analyzing.                                               *)
C1_AtMostOneInFlight == Cardinality(InFlight(tasks)) <= 1

\* A run is inspecting its second task while a task appended during the run
\* waits in the registry.
C1_Witness ==
    /\ pc = "inspect"
    /\ i >= 2
    /\ Len(tasks) > Len(tasksToProcess)
    /\ Cardinality(InFlight(tasks)) = 1

(* C2: on the step that signals "not running", every task of the run's      *)
(* snapshot is in the registry with status Completed or Failed; those that *)
(* were Completed at run start are as they were.                           *)
C2_RunEndsAllTerminal ==
    [][RunEnds =>
          \A k \in 1..Len(tasksToProcess) :
              /\ tasksToProcess[k].id \in Ids(tasks')
              /\ TaskOf(tasks', tasksToProcess[k].id).status \in Terminal
              /\ tasksToProcess[k].status = COMPLETED =>
                     TaskOf(tasks', tasksToProcess[k].id) = tasksToProcess[k]]_vars

\* A finished run of three tasks left both outcomes behind.
C2_Witness ==
    /\ ~isProcessing
    /\ Len(tasks) = 3
    /\ \A k \in 1..3 : tasks[k].status \in Terminal
    /\ HasStatus(tasks, {COMPLETED})
    /\ HasStatus(tasks, {FAILED})

C3_Fails ==
    /\ pc # "idle"
    /\ TaskOf(tasks, task.id).status # FAILED
    /\ TaskOf(tasks', task.id).status = FAILED

(* C3: a step on which the current task ends Failed starts the next snapshot *)
(* task that was not Completed at run start (it becomes Downloading and is *)
(* fetched), or ends the run when there is none; and a run ends only after *)
(* fetch was called for every snapshot task not Completed at run start.    *)
C3_FailureDoesNotAbort ==
    [][/\ C3_Fails =>
            LET later == {k \in Eligible(tasksToProcess) : k > i} IN
            IF later = {}
            THEN ~isProcessing'
            ELSE LET n == CHOOSE k \in later : \A m \in later : k <= m IN
                 /\ isProcessing'
                 /\ pc' = "fetch"
                 /\ i' = n
                 /\ tasksToProcess' = tasksToProcess
                 /\ TaskOf(tasks', tasksToProcess[n].id).status = DOWNLOADING
                 /\ fetched' = Append(fetched, tasksToProcess[n].id)
       /\ RunEnds =>
            \A k \in Eligible(tasksToProcess) : InSeq(fetched, tasksToProcess[k].id)]_vars

\* The second of three snapshot tasks has Failed and the third is being fetched.
C3_Witness ==
    /\ pc = "fetch"
    /\ Len(tasksToProcess) = 3
    /\ i = 3
    /\ TaskOf(tasks, tasksToProcess[2].id).status = FAILED
    /\ InSeq(fetched, tasksToProcess[2].id)
    /\ tasks[3].status = DOWNLOADING

(* C4: a task that is Completed is never changed by any step while it stays  *)
(* in the registry; a run calls neither fetch nor getPageCount for a task  *)
(* that was Completed at run start; and fetch is called during the run for *)
(* every task that was Failed at run start.                                *)
C4_CompletedSkipped ==
    [][/\ \A k \in 1..Len(tasks) :
              (tasks[k].status = COMPLETED /\ tasks[k].id \in Ids(tasks')) =>
                  TaskOf(tasks', tasks[k].id) = tasks[k]
       /\ \A k \in 1..Len(tasksToProcess') :
              tasksToProcess'[k].status = COMPLETED =>
                  /\ ~InSeq(fetched', tasksToProcess'[k].id)
                  /\ ~InSeq(inspected', tasksToProcess'[k].id)
       /\ RunEnds =>
              \A k \in 1..Len(tasksToProcess) :
                  tasksToProcess[k].status = FAILED =>
                      InSeq(fetched, tasksToProcess[k].id)]_vars

\* A run over a task that was Completed and a task that was Failed at its
\* start has passed the first and is working on the second.
C4_Witness ==
    /\ isProcessing
    /\ Len(tasksToProcess) >= 2
    /\ tasksToProcess[1].status = COMPLETED
    /\ tasksToProcess[2].status = FAILED
    /\ i = 2
    /\ tasks[1] = tasksToProcess[1]
    /\ tasks[2].status = ANALYZING

C5_Done(k) ==
    /\ InSeq(fetched, tasksToProcess[k].id)
    /\ TaskOf(tasks, tasksToProcess[k].id).status \in Terminal

(* C5: during a run, for snapshot positions a < b that were both not         *)
(* Completed at run start, as long as task a has not been fetched by this  *)
(* run and reached Completed or Failed, task b has not been fetched and is *)
(* exactly as it was at run start.                                         *)
C5_SnapshotOrder ==
    isProcessing =>
        \A a, b \in Eligible(tasksToProcess) :
            (a < b /\ ~C5_Done(a)) =>
                /\ ~InSeq(fetched, tasksToProcess[b].id)
                /\ TaskOf(tasks, tasksToProcess[b].id) = tasksToProcess[b]

\* The first task of a three-task run is being inspected; the other two wait.
C5_Witness ==
    /\ pc = "inspect"
    /\ i = 1
    /\ Cardinality(Eligible(tasksToProcess)) = 3
    /\ tasks[2] = tasksToProcess[2]
    /\ tasks[3] = tasksToProcess[3]

(* C6: every task of the registry has a pageCount exactly when its status is *)
(* Completed.                                                              *)
C6_PageCountIffCompleted ==
    \A k \in 1..Len(tasks) : IsSet(tasks[k].pageCount) <=> tasks[k].status = COMPLETED

\* A registry holding a Completed task, a Failed task and a task in flight.
C6_Witness ==
    /\ \E k \in 1..Len(tasks) : tasks[k].status = COMPLETED /\ tasks[k].pageCount = Some(2)
    /\ HasStatus(tasks, {FAILED})
    /\ HasStatus(tasks, {ANALYZING})

(* C7: every task of the registry has an error exactly when its status is    *)
(* Failed: a retried task carries none from the moment it is Downloading.  *)
C7_ErrorIffFailed ==
    \A k \in 1..Len(tasks) : IsSet(tasks[k].error) <=> tasks[k].status = FAILED

\* Two tasks that were Failed at run start: the first is now Completed, the
\* second is Downloading, both without an error.
C7_Witness ==
    /\ pc = "fetch"
    /\ i = 2
    /\ IsSet(tasksToProcess[1].error)
    /\ IsSet(tasksToProcess[2].error)
    /\ tasks[1].status = COMPLETED /\ ~IsSet(tasks[1].error)
    /\ tasks[2].status = DOWNLOADING /\ ~IsSet(tasks[2].error)

C8_Edges ==
    { <<IDLE, DOWNLOADING>>, <<FAILED, DOWNLOADING>>, <<DOWNLOADING, ANALYZING>>,
      <<DOWNLOADING, FAILED>>, <<ANALYZING, COMPLETED>>, <<ANALYZING, FAILED>> }

(* C8: every change of a task's status follows Idle -> Downloading,          *)
(* Failed -> Downloading, Downloading -> Analyzing, Downloading -> Failed, *)
(* Analyzing -> Completed or Analyzing -> Failed; a task new to the        *)
(* registry is Idle.                                                       *)
C8_StatusEdges ==
    [][\A k \in 1..Len(tasks') :
          IF tasks'[k].id \in Ids(tasks)
          THEN \/ tasks'[k].status = TaskOf(tasks, tasks'[k].id).status
               \/ <<TaskOf(tasks, tasks'[k].id).status, tasks'[k].status>> \in C8_Edges
          ELSE tasks'[k].status = IDLE]_vars

\* A task that was Failed at run start is being inspected (Failed ->
\* Downloading -> Analyzing), next to a Completed task.
C8_Witness ==
    /\ pc = "inspect"
    /\ tasksToProcess[i].status = FAILED
    /\ TaskOf(tasks, tasksToProcess[i].id).status = ANALYZING
    /\ HasStatus(tasks, {COMPLETED})

C9_Outsiders(ts, snapshot) == {k \in 1..Len(ts) : ts[k].id \notin Ids(snapshot)}

(* C9: tasks can be appended while a run is in progress; a task of the       *)
(* registry that is not in the run's snapshot is Idle, and neither fetch   *)
(* nor getPageCount has been called for it, for as long as the run lasts   *)
(* and on the step that ends it.                                           *)
C9_AppendedExcluded ==
    [][/\ isProcessing' =>
            \A k \in C9_Outsiders(tasks', tasksToProcess') :
                /\ tasks'[k].status = IDLE
                /\ ~InSeq(fetched', tasks'[k].id)
                /\ ~InSeq(inspected', tasks'[k].id)
       /\ RunEnds =>
            \A k \in C9_Outsiders(tasks, tasksToProcess) :
                /\ tasks[k].id \in Ids(tasks')
                /\ TaskOf(tasks', tasks[k].id).status = IDLE
                /\ ~InSeq(fetched, tasks[k].id)]_vars

\* The run is at its last snapshot task and the registry holds a task that
\* was appended after the snapshot was taken.
C9_Witness ==
    /\ isProcessing
    /\ pc = "inspect"
    /\ i = Len(tasksToProcess)
    /\ C9_Outsiders(tasks, tasksToProcess) # {}

C10_Accepted(u) == startsWith(trim(u), HTTP_PREFIX) \/ startsWith(trim(u), HTTPS_PREFIX)
C10_StartsWithPrefix(u) == startsWith(u, HTTP_PREFIX) \/ startsWith(u, HTTPS_PREFIX)

\* The step is "Add Links to Queue": the textarea is emptied.
C10_AddsFromTextarea == urlInput # <<>> /\ urlInput' = <<>>

\* The step is the onload of a pending reader whose file parses: the inputs
\* are the string cells of the first column.
C10_FileInputs(file) ==
    LET cells == [r \in 1..Len(file.data) |->
                     IF file.data[r] = <<>> THEN UndefinedCell ELSE file.data[r][1]]
        strings == SelectSeq(cells, LAMBDA cell : cell.type = "string")
    IN [r \in 1..Len(strings) |-> strings[r].value]

C10_AppendsExactly(inputs) ==
    LET accepted == SelectSeq(inputs, C10_Accepted) IN
    /\ Len(tasks') = Len(tasks) + Len(accepted)
    /\ SubSeq(tasks', 1, Len(tasks)) = tasks
    /\ \A k \in 1..Len(accepted) :
           /\ tasks'[Len(tasks) + k].url = trim(accepted[k])
           /\ tasks'[Len(tasks) + k].status = IDLE

(* C10: append creates exactly one Idle task, in input order, for every      *)
(* input string whose trimmed form starts with http:// or https://, with   *)
(* the trimmed string as its url, and no task for any other input string.  *)
C10_AppendFiltersTrimmed ==
    [][/\ C10_AddsFromTextarea => C10_AppendsExactly(split(urlInput, "\n"))
       /\ (Len(readers') < Len(readers)) =>
              \E k \in 1..Len(readers) :
                  /\ readers' = SubSeq(readers, 1, k - 1) \o SubSeq(readers, k + 1, Len(readers))
                  /\ IF readers[k].parses
                     THEN C10_AppendsExactly(C10_FileInputs(readers[k]))
                     ELSE tasks' = tasks]_vars

\* C10 as stated in the specification: a task is created for exactly the input strings that
\* themselves start with http:// or https://.
C10_AppendFiltersRaw ==
    [][C10_AddsFromTextarea =>
          Len(tasks') = Len(tasks)
                          + Len(SelectSeq(split(urlInput, "\n"), C10_StartsWithPrefix))]_vars

\* The only task of the registry came from an input with white space around
\* its URL (the scenario input would have made two).
C10_Witness ==
    /\ nextId = 1
    /\ Len(tasks) = 1
    /\ tasks[1].url = UrlB
    /\ tasks[1].status = IDLE
    /\ urlInput = <<>>
    /\ readers = <<>>


-----------------------------------------------------------------------------

C11_AppendsAtTail(inputs) ==
    LET accepted == SelectSeq(inputs, C10_Accepted)
        n == Len(tasks)
    IN /\ Len(tasks') = n + Len(accepted)
       /\ \A k \in 1..n : tasks'[k] = tasks[k]
       /\ \A k \in 1..Len(accepted) :
              LET t == tasks'[n + k] IN
              /\ t.url = trim(accepted[k])
              /\ t.status = IDLE
              /\ t.pageCount = Undefined
              /\ t.error = Undefined
              /\ t.id \notin Ids(tasks)
              /\ \A j \in 1..Len(accepted) : j # k => tasks'[n + j].id # t.id
       /\ accepted = <<>> => tasks' = tasks

(* C11: append puts one new task per accepted URL at the tail of the       *)
(* registry, in input order, each Idle, with an id that no task of the      *)
(* registry and no other new task has, and with neither page count nor     *)
(* error; the tasks already there keep their positions and all their       *)
(* fields; an append without an accepted URL leaves the registry as it was; *)
(* a URL that is already in the registry gets a task of its own.           *)
C11_AppendFrame ==
    [][/\ C10_AddsFromTextarea => C11_AppendsAtTail(split(urlInput, "\n"))
       /\ (Len(readers') < Len(readers)) =>
              \E k \in 1..Len(readers) :
                  /\ readers' = SubSeq(readers, 1, k - 1) \o SubSeq(readers, k + 1, Len(readers))
                  /\ IF readers[k].parses
                     THEN C11_AppendsAtTail(C10_FileInputs(readers[k]))
                     ELSE tasks' = tasks
       /\ Len(tasks') > Len(tasks) =>
              /\ SubSeq(tasks', 1, Len(tasks)) = tasks
              /\ \A k \in (Len(tasks) + 1)..Len(tasks') : tasks'[k].id \notin Ids(tasks)]_vars

\* A URL was appended a second time after its first task had completed: the
\* first task kept its place and fields, the second is a task of its own.
C11_Witness ==
    /\ Len(tasks) = 3
    /\ tasks[1].url = tasks[3].url
    /\ tasks[1].id # tasks[3].id
    /\ tasks[1].status = COMPLETED
    /\ tasks[2].status = IDLE
    /\ tasks[3].status = IDLE
    /\ tasks[3].pageCount = Undefined
    /\ tasks[3].error = Undefined


-----------------------------------------------------------------------------

\* The "Page Count" cell the specification gives a task of each status.
C12_Cell(t) ==
    CASE t.status = COMPLETED -> [type |-> "number", value |-> t.pageCount[1]]
      [] t.status = FAILED -> [type |-> "string", value |-> "Error"]
      [] t.status \in {IDLE, DOWNLOADING, ANALYZING} -> [type |-> "string", value |-> "Pending"]

\* rows is what the specification has an export of the registry ts write.
C12_RowsOf(ts, rows) ==
    /\ Len(rows) = Len(ts)
    /\ \A k \in 1..Len(ts) :
           /\ rows[k].FileName = ts[k].fileName
           /\ rows[k].URL = ts[k].url
           /\ rows[k].PageCount = C12_Cell(ts[k])
           /\ ts[k].status = COMPLETED => rows[k].PageCount.value \in PageCounts

(* C12: in every reachable state, a run in progress or not, the rows an    *)
(* export of the registry writes are one per task, in registry order, each *)
(* with the task's file name and URL, and with a page count cell that is   *)
(* the integer page count of a Completed task, "Error" for a Failed task,  *)
(* and "Pending" for an Idle, Downloading or Analyzing task; and the rows  *)
(* of an export just made are those.                                       *)
C12_ExportRows ==
    /\ C12_RowsOf(tasks, exportRows(tasks))
    /\ exportData.written => C12_RowsOf(tasks, exportData.rows)

\* An export in the middle of a run: one task Completed, one Failed, one
\* being analyzed.
C12_Witness ==
    /\ exportData.written
    /\ isProcessing
    /\ Len(tasks) = 3
    /\ tasks[1].status = COMPLETED
    /\ tasks[2].status = FAILED
    /\ tasks[3].status = ANALYZING
    /\ exportData.rows[1].PageCount.value = 2
    /\ exportData.rows[2].PageCount.value = "Error"
    /\ exportData.rows[3].PageCount.value = "Pending"


-----------------------------------------------------------------------------

\* The step fails the current task while its download is awaited (the fetch
\* of line 85 or the blob of line 87).
C13_DownloadFails ==
    /\ pc \in {"fetch", "blob"}
    /\ TaskOf(tasks, task.id).status # FAILED
    /\ TaskOf(tasks', task.id).status = FAILED

\* Messages of the failures of a response with a status code outside 200..299.
C13_HttpMessages ==
    {"HTTP " \o ToString(code) \o ": Failed to download" : code \in StatusCodes \ (200..299)}

(* C13: when the download of a task fails, by a response with a status     *)
(* code outside 200..299 or by a transport error, the task goes from       *)
(* Downloading to Failed in one step, it is never Analyzing and the        *)
(* inspector is never called for it in that run; its error is              *)
(* "HTTP <code>: Failed to download" with the code of such a response, or  *)
(* the text of the transport error, and it has no page count.              *)
C13_DownloadFailure ==
    [][C13_DownloadFails =>
          /\ TaskOf(tasks, task.id).status = DOWNLOADING
          /\ ~InSeq(inspected, task.id)
          /\ ~InSeq(inspected', task.id)
          /\ TaskOf(tasks', task.id).pageCount = Undefined
          /\ TaskOf(tasks', task.id).error
                 \in {Some(m) : m \in C13_HttpMessages \cup TransportErrors}
          /\ pc = "blob" => TaskOf(tasks', task.id).error \in {Some(m) : m \in TransportErrors}]_vars

\* A run is over in which the first task failed on a 404 response and the
\* second on a transport error; the inspector was called for neither (both
\* would be Failed with the inspector's message otherwise).
C13_Witness ==
    /\ ~isProcessing
    /\ Len(tasks) = 2
    /\ tasks[1].status = FAILED
    /\ tasks[1].error = Some("HTTP 404: Failed to download")
    /\ tasks[2].status = FAILED
    /\ tasks[2].error = Some("Failed to fetch")
    /\ tasks[1].pageCount = Undefined
    /\ tasks[2].pageCount = Undefined


-----------------------------------------------------------------------------

\* Awaits the run may still have to pass: three per task from the current
\* one on, less those the current task has passed.
C14_Remaining ==
    IF pc = "idle" THEN 0
    ELSE 3 * (Len(tasksToProcess) - i)
           + (CASE pc = "fetch" -> 3 [] pc = "blob" -> 2 [] pc = "inspect" -> 1)

(* C14: when every fetch, blob and inspection eventually settles, every    *)
(* run that starts eventually ends with isProcessing false again; each     *)
(* step of the runner lowers the number of awaits the run may still have   *)
(* to pass, which is at most three per task of the snapshot.               *)
C14_RunTerminates ==
    /\ isProcessing ~> ~isProcessing
    /\ [](C14_Remaining <= 3 * Len(tasksToProcess))
    /\ [][(pc # "idle" /\ runner' # runner) => C14_Remaining' < C14_Remaining]_vars

\* A run over three tasks has ended after two failures of different kinds
\* and one success.
C14_Witness ==
    /\ ~isProcessing
    /\ pc = "idle"
    /\ Len(tasks) = 3
    /\ tasks[1].error = Some("Failed to fetch")
    /\ tasks[2].status = COMPLETED
    /\ tasks[3].error = Some("Invalid PDF structure.")


-----------------------------------------------------------------------------

(* C15: the id, the url and the file name of a task never change after its *)
(* creation: every step leaves the url and the file name of every task     *)
(* that stays in the registry as they were, and a step that keeps the      *)
(* length of the registry keeps the id at every position.                  *)
C15_IdentityFrozen ==
    [][/\ \A id \in Ids(tasks) \cap Ids(tasks') :
              /\ TaskOf(tasks', id).url = TaskOf(tasks, id).url
              /\ TaskOf(tasks', id).fileName = TaskOf(tasks, id).fileName
       /\ Len(tasks') = Len(tasks) => \A k \in 1..Len(tasks) : tasks'[k].id = tasks[k].id]_vars

\* The first task of the scenario was removed; the two left were run, one to
\* Completed and one to Failed, and still have their ids, urls and file names.
C15_Witness ==
    /\ Len(tasks) = 2
    /\ tasks[1].id = 2
    /\ tasks[1].url = UrlB
    /\ tasks[1].fileName = <<"y", ".", "p", "d", "f">>
    /\ tasks[1].status = COMPLETED
    /\ tasks[2].id = 3
    /\ tasks[2].url = UrlB
    /\ tasks[2].fileName = <<"y", ".", "p", "d", "f">>
    /\ tasks[2].status = FAILED


-----------------------------------------------------------------------------

\* r is ts without its task of this id, or ts itself when it has none.
C16_RemovesExactly(ts, id, r) ==
    IF id \in Ids(ts)
    THEN \E k \in 1..Len(ts) :
             /\ ts[k].id = id
             /\ r = SubSeq(ts, 1, k - 1) \o SubSeq(ts, k + 1, Len(ts))
    ELSE r = ts

(* C16: remove(id) deletes exactly the task with that id and leaves the    *)
(* fields and the relative order of all other tasks as they were; with an  *)
(* id that no task has it leaves the registry unchanged. Every step that   *)
(* takes one task out of the registry is such a removal.                   *)
C16_RemoveFrame ==
    [][/\ \A id \in 0..MaxIds : C16_RemovesExactly(tasks, id, removeFrom(tasks, id))
       /\ Len(tasks') = Len(tasks) - 1 =>
              \E id \in Ids(tasks) : C16_RemovesExactly(tasks, id, tasks')]_vars

\* The middle one of three tasks was removed; the Completed task before it
\* and the Idle task after it are as they were.
C16_Witness ==
    /\ Len(tasks) = 2
    /\ tasks[1].id = 1
    /\ tasks[1].status = COMPLETED
    /\ tasks[1].pageCount = Some(1)
    /\ tasks[2].id = 3
    /\ tasks[2].status = IDLE
    /\ nextId = 3


-----------------------------------------------------------------------------

\* The percent-decoded form of each last segment of the inputs; the empty
\* string where the segment is empty or its decoding fails.
C17_Decoded(segment) ==
    CASE segment = <<"r", "e", "p", "o", "r", "t", ".", "p", "d", "f">> -> <<"r", "e", "p", "o", "r", "t", ".", "p", "d", "f">>
      [] segment = <<"a", "%", "2", "0", "b", ".", "p", "d", "f">> -> <<"a", " ", "b", ".", "p", "d", "f">>
      [] segment = <<"%", "2", "0", "n", "a", "m", "e", ".", "p", "d", "f">> -> <<" ", "n", "a", "m", "e", ".", "p", "d", "f">>
      [] segment = <<"a", " ", "b", ".", "p", "d", "f">> -> <<"a", " ", "b", ".", "p", "d", "f">>
      [] segment = <<"x", "%", "2", "F", "y", ".", "p", "d", "f">> -> <<"x", "/", "y", ".", "p", "d", "f">>
      [] segment = <<"%", "C", "3", "%", "A", "9", ".", "p", "d", "f">> -> <<Chr(233)>> \o <<".", "p", "d", "f">>
      [] segment = <<"a", "%", "3", "F", "b", "%", "2", "3", "c">> -> <<"a", "?", "b", "#", "c">>
      [] segment = <<>> -> <<>>
      [] segment = <<"%", "z", "z">> -> <<>>
      [] segment = <<"1", "0", "0", "%", ".", "p", "d", "f">> -> <<>>
      [] segment = <<"%", "C", "3", ".", "p", "d", "f">> -> <<>>
      [] segment = <<"U+233", ".", "p", "d", "f">> -> <<"U+233", ".", "p", "d", "f">>

C17_Expected(segment) ==
    IF C17_Decoded(segment) = <<>> THEN <<"d", "o", "c", "u", "m", "e", "n", "t", ".", "p", "d", "f">> ELSE C17_Decoded(segment)

(* C17: getFileNameFromUrl returns the last path segment of the URL, query *)
(* and fragment stripped, percent-decoded; it returns "document.pdf" when  *)
(* the URL is malformed, when the decoding fails or when the segment is    *)
(* empty; for https://host/path/report.pdf?x=1#y it returns report.pdf;    *)
(* its result is never the empty string. The last segment is that of the   *)
(* pathname the URL parser gives: of https://h/a/.b/.. it is "..".         *)
C17_FileName ==
    tasks # <<>> =>
        /\ tasks[1].fileName # <<>>
        /\ urlInput \in MalformedUrls => tasks[1].fileName = <<"d", "o", "c", "u", "m", "e", "n", "t", ".", "p", "d", "f">>
        /\ urlInput \in DotSegmentUrls =>
               tasks[1].fileName = SubSeq(urlInput, 16, Len(urlInput))
        /\ \A p \in UrlPrefixes : \A d \in UrlDirs :
               \A g \in UrlLastSegments : \A x \in UrlSuffixes :
                   urlInput = AssembleUrl(p, d, g, x) => tasks[1].fileName = C17_Expected(g)

\* The function was applied to https://host/path/report.pdf?x=1#y.
C17_Witness ==
    /\ urlInput = <<"h", "t", "t", "p", "s", ":", "/", "/", "h", "o", "s", "t", "/", "p", "a", "t", "h", "/", "r", "e", "p", "o", "r", "t", ".", "p", "d", "f", "?", "x", "=", "1", "#", "y">>
    /\ tasks # <<>>
    /\ tasks[1].fileName = <<"r", "e", "p", "o", "r", "t", ".", "p", "d", "f">>


-----------------------------------------------------------------------------

\* Ids of the tasks whose status the step changes.
C18_StatusWritten ==
    {id \in Ids(tasks) \cap Ids(tasks') : TaskOf(tasks', id).status # TaskOf(tasks, id).status}

(* C18: while isProcessing is true no step takes a task out of the         *)
(* registry, so the tasks of the snapshot stay in the registry, at the     *)
(* positions and in the order they had at run start, from the start of the *)
(* run to its end; the task the runner works on is in the registry         *)
(* whenever the runner updates it; and the only steps that change the      *)
(* status of a task during a run are steps of the runner, on tasks of the  *)
(* snapshot.                                                               *)
C18_RunIsolated ==
    [][isProcessing =>
          /\ Len(tasks') >= Len(tasks)
          /\ \A k \in 1..Len(tasks) : tasks'[k].id = tasks[k].id
          /\ Len(tasksToProcess) <= Len(tasks)
          /\ \A k \in 1..Len(tasksToProcess) : tasks[k].id = tasksToProcess[k].id
          /\ task.id \in Ids(tasks)
          /\ C18_StatusWritten # {} =>
                 /\ runner' # runner
                 /\ C18_StatusWritten \subseteq Ids(tasksToProcess)]_vars

\* A run over two tasks is at its second task while a third task, appended
\* during the run, stands behind them.
C18_Witness ==
    /\ isProcessing
    /\ pc = "inspect"
    /\ Len(tasksToProcess) = 2
    /\ i = 2
    /\ Len(tasks) = 3
    /\ tasks[1].status = FAILED
    /\ tasks[2].status = ANALYZING
    /\ tasks[3].status = IDLE

-----------------------------------------------------------------------------

\* The step fails the current task while its inspection is awaited (the
\* getPageCount of line 90).
C19_InspectFails ==
    /\ pc = "inspect"
    /\ TaskOf(tasks, task.id).status # FAILED
    /\ TaskOf(tasks', task.id).status = FAILED

(* C19: when the inspector fails on the bytes of a task, the task, which   *)
(* was fetched and is Analyzing, becomes Failed with the inspector's       *)
(* message as its error and without a page count, and the runner goes on   *)
(* to the next task of the snapshot that was not Completed at run start,   *)
(* or ends the run when there is none.                                     *)
C19_InspectFailure ==
    [][C19_InspectFails =>
          /\ TaskOf(tasks, task.id).status = ANALYZING
          /\ InSeq(fetched, task.id)
          /\ InSeq(inspected, task.id)
          /\ TaskOf(tasks', task.id).error \in {Some(m) : m \in InspectorErrors}
          /\ TaskOf(tasks', task.id).pageCount = Undefined
          /\ LET later == {k \in (i + 1)..Len(tasksToProcess) :
                              tasksToProcess[k].status # COMPLETED}
             IN IF later = {}
                THEN pc' = "idle" /\ ~isProcessing'
                ELSE /\ pc' = "fetch"
                     /\ i' \in later
                     /\ \A k \in later : i' <= k
                     /\ TaskOf(tasks', tasksToProcess[i'].id).status = DOWNLOADING]_vars

\* The inspector failed on the first of two snapshot tasks, and the second
\* has been fetched and is being analyzed.
C19_Witness ==
    /\ pc = "inspect"
    /\ i = 2
    /\ Len(tasksToProcess) = 2
    /\ Len(tasks) = 2
    /\ tasks[1].status = FAILED
    /\ tasks[1].error = Some("Invalid PDF structure.")
    /\ tasks[1].pageCount = Undefined
    /\ tasks[2].status = ANALYZING

-----------------------------------------------------------------------------

\* The step starts a run: the runner takes a new snapshot.
C20_RunStarts == tasksToProcess' # <<>> /\ tasksToProcess' # tasksToProcess

(* C20: at most one run is active: a run starts only when isProcessing is  *)
(* false and some task is Idle or Failed; isProcessing is true exactly     *)
(* while the runner is between the start of a run and its end, and it      *)
(* becomes false only when every task of the snapshot is Completed or      *)
(* Failed; whenever isProcessing is false no task is Downloading or        *)
(* Analyzing.                                                              *)
C20_SingleRun ==
    /\ [](isProcessing <=> pc # "idle")
    /\ [](~isProcessing => InFlight(tasks) = {})
    /\ [][/\ C20_RunStarts =>
                /\ ~isProcessing
                /\ isProcessing'
                /\ HasStatus(tasks, {IDLE, FAILED})
                /\ tasksToProcess = <<>>
          /\ (isProcessing /\ ~isProcessing') =>
                \A k \in 1..Len(tasksToProcess) :
                    TaskOf(tasks', tasksToProcess[k].id).status \in Terminal]_vars

\* A second run, started after the first had ended with a failure, is
\* fetching the task that failed.
C20_Witness ==
    /\ isProcessing
    /\ pc = "fetch"
    /\ Len(tasksToProcess) = 2
    /\ tasksToProcess[1].status = COMPLETED
    /\ tasksToProcess[2].status = FAILED
    /\ tasksToProcess[2].error # Undefined
    /\ tasks[1].status = COMPLETED
    /\ tasks[2].status = DOWNLOADING
    /\ tasks[2].error = Undefined

====
